---- MODULE Spec2Model ----
(***************************************************************************)
(* A model of the agent execution engine of adk-go: the Runner             *)
(* (package runners), the in-memory session store (package sessions) and   *)
(* the workflow agents (package agents).  Goroutines are processes with a  *)
(* program counter; an unbuffered channel hands one event from a sender    *)
(* blocked in "send" to a receiver blocked in "recv" in one step.          *)
(***************************************************************************)
EXTENDS Integers, Sequences, FiniteSets, TLC

\* ------------------------------------------------------------------ bounds

\* The most events one leaf agent emits in one run.
MaxEmit == 2

\* The most calls other clients of the session store make (DeleteSession,
\* CreateSession, AppendEvent) in one behaviour.
MaxEnvOps == 2

\* The largest MaxIterations a LoopAgent is given.
MaxIterationsCap == 2

\* The most sessions the clients of a store create, and the most events
\* they append, in one behaviour.
MaxSessions == 2
MaxAppends == 2

\* ------------------------------------------------------ static structure

\* The Runner.RunAsync invocations; the thread of each is also the caller
\* that drains the returned channel.  The first has a leaf as its root
\* agent, the second a SequentialAgent that ends with the LlmAgent, the
\* third a leaf again.
Runners == {"r1", "r2", "r3"}

\* The two invocations that run at the same time on one session key.
Pair == {"r1", "r3"}

\* The invocation that runs when one Runner is looked at.
Solo == {"r1"}

\* The goroutine RunAsync starts to persist and relay the root's events.
Relay == [r1 |-> "relay1", r2 |-> "relay2", r3 |-> "relay3"]

\* Runner.Agent of each invocation.
Root == [r1 |-> "root", r2 |-> "seqH", r3 |-> "root3"]

\* The outputChan RunAsync makes.
OutputChan == [r1 |-> "out1", r2 |-> "out2", r3 |-> "out3"]

\* Runner.AppName and the arguments of RunAsync.
AppName == "app"
UserID == [r1 |-> "u", r2 |-> "u", r3 |-> "u"]
SessionID == [r1 |-> "s", r2 |-> "s", r3 |-> "s"]

\* The values of the newMessage argument: nil, or a content.
NilContent == "nil"
Messages == {NilContent, "hi"}

\* Agents whose RunAsync is the Agent interface's contract alone: it
\* returns an error, or a channel on which events arrive until it is closed.
Leaves == {"root", "s1", "s2", "p1", "p2", "l1", "l2", "s3", "h1",
           "root3"}

\* The LlmAgent, and the goroutine its backend's GenerateContentAsync
\* starts.
LlmAgents == {"llm"}
Backend == [llm |-> "backend"]

\* The invocation whose InvocationContext the LlmAgent is given.
Invocation == [llm |-> "r2"]

\* The SequentialAgents, the ParallelAgent, the LoopAgent, and their
\* SubAgents lists; the second SequentialAgent starts with the LlmAgent,
\* the third ends with it.
SeqAgents == {"seq", "seqL", "seqH"}
ParAgents == {"par"}
LoopAgents == {"loop"}
SubAgents == [seq |-> <<"s1", "s2">>, par |-> <<"p1", "p2">>,
              loop |-> <<"l1", "l2">>, seqL |-> <<"llm", "s3">>,
              seqH |-> <<"h1", "llm">>]

\* The goroutine a ParallelAgent starts for each sub-agent.
Forwarder == [p1 |-> "f1", p2 |-> "f2"]
ForwarderParent == [p1 |-> "par", p2 |-> "par"]

\* The consumer that ranges over a workflow agent's channel when that
\* agent is run on its own.
Harness == [seq |-> "hseq", par |-> "hpar", loop |-> "hloop",
            llm |-> "hllm", seqL |-> "hseqL", seqH |-> "hseqH"]

\* The two tasks that share one State: one calls Update, its sibling Get.
Tasks == {"upd", "sib"}

\* The goroutines that resolve a model at the same time.
Callers == {"c1", "c2"}

WorkflowAgents == SeqAgents \cup ParAgents \cup LoopAgents
Agents == Leaves \cup WorkflowAgents \cup LlmAgents
Backends == {Backend[a] : a \in LlmAgents}
Relays == {Relay[r] : r \in Runners}
Forwarders == {Forwarder[c] : c \in DOMAIN Forwarder}
Harnesses == {Harness[a] : a \in DOMAIN Harness}
Procs == Runners \cup Relays \cup Agents \cup Forwarders \cup Harnesses
             \cup Backends \cup Tasks \cup Callers
Chans == Agents \cup {OutputChan[r] : r \in Runners} \cup Backends

\* The agents of a tree that is being built, and their names: two of them
\* have the same name.
Nodes == {"n1", "n2", "n3", "n4"}
Name == [n1 |-> "r", n2 |-> "a", n3 |-> "b", n4 |-> "b"]

Range(s) == {s[i] : i \in 1..Len(s)}

\* -------------------------------------------------------------- variables

VARIABLES
    pc,                   \* the position of every goroutine
    event,                \* the loop variable `event` of every goroutine
    chanClosed,           \* whether close() was called on a channel
    chanLog,              \* history: the events handed over on each channel
    idx,                  \* workflow agents: index of the range over SubAgents
    wg,                   \* ParallelAgent: the sync.WaitGroup counter
    BeforeAgentCallback,  \* per agent: "nil", or what the callback returns
    AfterAgentCallback,
    beforeCalled,         \* history: times each callback was invoked
    afterCalled,
    sessions,             \* InMemorySessionService.sessions: key -> *Session
    heap,                 \* every Session object allocated so far
    newMessage,           \* the newMessage argument of each invocation
    session,              \* the local `session` of RunAsync (0 is nil)
    eventsRead,           \* s.Events as read by an unlocked Session.AddEvent
    result,               \* what RunAsync returned: "none", "chan", "error"
    appendCalled,         \* history: root events AppendEvent was called for
    persistedBy,          \* history: events an invocation added to a Session
    dropped,              \* history: events AppendEvent did not add
    disturbed,            \* history: session deleted or re-created mid-run
    foreign,              \* history: another client appended to the session
    envOps,               \* calls made by other clients so far
    MaxIterations,        \* LoopAgent.MaxIterations
    iteration,            \* LoopAgent: the loop variable `iteration`
    runLog,               \* history: the RunAsync calls a LoopAgent made
    checks,               \* history: what shouldExitLoop's Get returned
    BeforeModelCallback,  \* per LlmAgent: "nil", or what the callback returns
    AfterModelCallback,
    beforeModelCalled,    \* history: times each callback was invoked
    afterModelCalled,
    Model,                \* LlmAgent.Model
    OutputKey,            \* LlmAgent.OutputKey
    llm,                  \* LlmAgent.llm: the two words of the interface
    respBuf,              \* the buffer of the backend's response channel
    genCalled,            \* history: GenerateContentAsync calls
    stored,               \* history: events storeOutputInSession wrote
    models,               \* LLMRegistry.models: the registered model types
    instances,            \* LLMRegistry.instances: model name -> LLM
    factoryCalls,         \* history: factory calls per model name
    stateMu,              \* State.mu: "free", or held by the writer
    pending,              \* State.Update: the pairs its range has left
    got,                  \* the sibling's Get results, in call order
    request,              \* what each caller resolves
    local,                \* GetCanonicalModel: the local `llm`
    wordsLeft,            \* GetCanonicalModel: words of a.llm to be stored
    returned,             \* what each caller's call returned
    resolved,             \* history: what getOrCreateSession's Get found
    live,                 \* history: keys created and not deleted since
    reply,                \* what a client's last store call returned
    cancelled,            \* whether the invocation's ctx is cancelled
    logAtCancel,          \* history: chanLog when ctx was cancelled
    ctxEvents,            \* invocationCtx.Session.Events (the copy's slice)
    subAgentsOf,          \* BaseAgent.SubAgents of the agents of a tree
    ParentAgent,          \* BaseAgent.ParentAgent
    findResult,           \* what the last FindAgent / FindSubAgent returned
    IncludeContents,      \* LlmAgent.IncludeContents
    Instruction,          \* LlmAgent.Instruction
    contents              \* history: request.Contents of the last request

vars == <<pc, event, chanClosed, chanLog, idx, wg, BeforeAgentCallback,
          AfterAgentCallback, beforeCalled, afterCalled, sessions, heap,
          newMessage, session, eventsRead, result, appendCalled,
          persistedBy, dropped, disturbed, foreign, envOps, MaxIterations,
          iteration, runLog, checks,
          BeforeModelCallback, AfterModelCallback, beforeModelCalled,
          afterModelCalled, Model, OutputKey, llm, respBuf, genCalled,
          stored, models, instances, factoryCalls, stateMu, pending, got,
          request, local, wordsLeft, returned, resolved, live,
          reply,
          cancelled, logAtCancel, ctxEvents, subAgentsOf, ParentAgent,
          findResult, IncludeContents, Instruction, contents>>

agentVars == <<idx, wg, BeforeAgentCallback, AfterAgentCallback,
               beforeCalled, afterCalled>>
storeVars == <<sessions, heap>>
runnerVars == <<newMessage, session, eventsRead, result, appendCalled,
                persistedBy, dropped>>
envVars == <<disturbed, foreign, envOps>>
loopVars == <<MaxIterations, iteration, runLog, checks>>
llmVars == <<BeforeModelCallback, AfterModelCallback, beforeModelCalled,
             afterModelCalled, Model, OutputKey, llm, respBuf, genCalled,
             stored>>
registryVars == <<models, instances, factoryCalls>>
taskVars == <<stateMu, pending, got, request, local, wordsLeft, returned>>
sessionOpVars == <<resolved, live, reply>>
ctxVars == <<cancelled, logAtCancel, ctxEvents>>
treeVars == <<subAgentsOf, ParentAgent, findResult>>
requestVars == <<IncludeContents, Instruction, contents>>
moreVars == <<sessionOpVars, ctxVars, treeVars, requestVars>>
restVars == <<loopVars, llmVars, registryVars, taskVars, moreVars>>

\* ----------------------------------------------------------------- events

\* A Content with no Parts; any other Content is written as the Text of
\* its first Part.
NoParts == ""

\* events.NewEvent(): a fresh ID, IsFinalResponse and Actions at their zero
\* values; Author and Content are set by the maker.
NewEvent(maker, n, author, content) ==
    [id |-> <<maker, n>>, author |-> author, content |-> content,
     IsFinalResponse |-> FALSE, SkipSummarization |-> FALSE]

NoEvent == NewEvent("none", 0, "", NilContent)

\* ------------------------------------------------------------------ store

\* InMemorySessionService.sessionKey
sessionKey(appName, userID, sessionID) ==
    appName \o ":" \o userID \o ":" \o sessionID

\* A Go value kept in a State (an interface{}): its dynamic type and its
\* value.
Bool(b) == <<"bool", IF b THEN "true" ELSE "false">>
Str(s) == <<"string", s>>
Nil == <<"nil", "">>

\* sessions.NewState: an empty map.
NewState == [k \in {} |-> Nil]

\* State.Set applied to the map.
Set(data, key, value) ==
    [k \in DOMAIN data \cup {key} |-> IF k = key THEN value ELSE data[k]]

\* State.Get applied to the map: the value, and whether the key exists.
Get(data, key) ==
    IF key \in DOMAIN data THEN <<data[key], TRUE>> ELSE <<Nil, FALSE>>

\* uuid.New().String(): a string no earlier call returned.
NewUUID == "uuid-" \o ToString(Len(heap) + 1)

\* sessions.NewSession: the given ID or, for "", a new one; an empty event list, and a State that is a copy of
\* the initial state (empty when that is nil).
NewSession(appName, userID, sessionID, initialState) ==
    [ID |-> IF sessionID = "" THEN NewUUID ELSE sessionID,
     AppName |-> appName, UserID |-> userID,
     Events |-> <<>>, State |-> initialState]

\* A faulty AddEvent: the event is put in front of the list.
AddEventInFront(events, e) == <<e>> \o events

\* Session.AddEvent applied to the event list it read.
AddEvent(events, e) == Append(events, e)

\* A faulty CreateSession: a session that is stored under the key stays.
CreateSessionIfAbsent(appName, userID, sessionID, initialState) ==
    LET key == sessionKey(appName, userID, sessionID)
        obj == Len(heap) + 1
    IN  /\ heap' = Append(heap, NewSession(appName, userID, sessionID,
                                           initialState))
        /\ sessions' = [k \in DOMAIN sessions \cup {key} |->
                           IF k \in DOMAIN sessions THEN sessions[k]
                           ELSE obj]

\* InMemorySessionService.CreateSession: the store after the call; the new
\* Session is the last object of the heap.
CreateSession(appName, userID, sessionID, initialState) ==
    LET key == sessionKey(appName, userID, sessionID)
        obj == Len(heap) + 1
    IN  /\ heap' = Append(heap, NewSession(appName, userID, sessionID,
                                           initialState))
        /\ sessions' = [k \in DOMAIN sessions \cup {key} |->
                           IF k = key THEN obj ELSE sessions[k]]

\* A faulty GetSession: it finds no session.
GetSessionNotFound(appName, userID, sessionID) == 0

\* InMemorySessionService.GetSession: the *Session, 0 for nil.
GetSession(appName, userID, sessionID) ==
    LET key == sessionKey(appName, userID, sessionID)
    IN  IF key \in DOMAIN sessions THEN sessions[key] ELSE 0

\* A faulty DeleteSession: it empties the store.
DeleteSessionAll(appName, userID, sessionID) ==
    /\ sessions' = [k \in {} |-> 0]
    /\ UNCHANGED heap

\* InMemorySessionService.DeleteSession
DeleteSession(appName, userID, sessionID) ==
    LET key == sessionKey(appName, userID, sessionID)
    IN  /\ sessions' = [k \in DOMAIN sessions \ {key} |-> sessions[k]]
        /\ UNCHANGED heap

\* Whether AppendEvent finds the session and so adds the event.
AppendFinds(appName, userID, sessionID) ==
    sessionKey(appName, userID, sessionID) \in DOMAIN sessions

\* InMemorySessionService.AppendEvent: under the lock, add the event to the
\* stored session, or do nothing (and return nil) when the key is absent.
AppendEvent(appName, userID, sessionID, e) ==
    LET key == sessionKey(appName, userID, sessionID)
    IN  /\ heap' = IF key \in DOMAIN sessions
                   THEN [heap EXCEPT ![sessions[key]].Events =
                                         AddEvent(@, e)]
                   ELSE heap
        /\ UNCHANGED sessions

\* InMemorySessionService.ListEvents: nil (the empty list) when absent.
ListEvents(appName, userID, sessionID) ==
    LET key == sessionKey(appName, userID, sessionID)
    IN  IF key \in DOMAIN sessions THEN heap[sessions[key]].Events ELSE <<>>

\* InMemorySessionService.ListSessions: the sessions whose key is longer
\* than the prefix "app:user:" and starts with it (in the order of the
\* map's iteration, so a set).
ListSessions(appName, userID) ==
    LET prefix == appName \o ":" \o userID \o ":"
    IN  {sessions[key] :
            key \in {k \in DOMAIN sessions :
                        /\ Len(k) > Len(prefix)
                        /\ SubSeq(k, 1, Len(prefix)) = prefix}}

\* --------------------------------------------------------------- channels

\* The channel a goroutine sends on.
SendChan(p) ==
    IF p \in Forwarders
    THEN ForwarderParent[CHOOSE c \in DOMAIN Forwarder : Forwarder[c] = p]
    ELSE IF p \in Relays
    THEN OutputChan[CHOOSE r \in Runners : Relay[r] = p]
    ELSE p

\* Where a sender continues once its send has completed: a leaf goes on
\* running, a LoopAgent looks at the event it sent, any other forwarding
\* loop receives again.
AfterSend(p) ==
    IF p \in Leaves THEN "run"
    ELSE IF p \in LoopAgents THEN "check"
    ELSE "recv"

\* `ch <- event` in p meets `event := range ch` in q: the unbuffered channel
\* hands the event from the blocked sender to the blocked receiver.
Handover(q, p, qnext) ==
    /\ pc[q] = "recv"
    /\ pc[p] = "send"
    /\ ~chanClosed[SendChan(p)]
    /\ pc' = [pc EXCEPT ![q] = qnext, ![p] = AfterSend(p)]
    /\ event' = [event EXCEPT ![q] = event[p], ![p] = NoEvent]
    /\ chanLog' = [chanLog EXCEPT ![SendChan(p)] = Append(@, event[p])]

\* A range over ch ends: the channel is closed (and no sender is blocked on
\* it).
RangeEnds(q, ch) ==
    /\ pc[q] = "recv"
    /\ chanClosed[ch]

\* ------------------------------------------------------------ leaf agents

\* Agent.RunAsync of a leaf, as its caller sees it: an error and no channel,
\* or a channel and a running producer.
LeafRunAsync(ok) == IF ok THEN "run" ELSE "error"

\* What RunAsync of agent c can return: an LlmAgent's and a workflow
\* agent's always return the channel and a nil error; a leaf's returns
\* either.
RunAsyncOutcomes(c) == IF c \in Leaves THEN BOOLEAN ELSE {TRUE}

\* Where agent c is once its RunAsync has returned.
RunAsync(c, ok) == IF c \in Leaves THEN LeafRunAsync(ok) ELSE "start"

\* The leaf produces its next event and blocks sending it.
LeafEmit(a) ==
    /\ pc[a] = "run"
    /\ Len(chanLog[a]) < MaxEmit
    /\ pc' = [pc EXCEPT ![a] = "send"]
    /\ event' = [event EXCEPT
                    ![a] = NewEvent(a, Len(chanLog[a]) + 1, a, "out")]
    /\ UNCHANGED <<chanClosed, chanLog, agentVars, storeVars, runnerVars,
                   envVars, restVars>>

\* The leaf produces an event whose Actions ask for the loop's exit, as
\* the ExitLoop tool sets them, and blocks sending it.
LeafEmitExit(a) ==
    /\ pc[a] = "run"
    /\ Len(chanLog[a]) < MaxEmit
    /\ pc' = [pc EXCEPT ![a] = "send"]
    /\ event' = [event EXCEPT
                    ![a] = [NewEvent(a, Len(chanLog[a]) + 1, a, "out")
                               EXCEPT !.SkipSummarization = TRUE]]
    /\ UNCHANGED <<chanClosed, chanLog, agentVars, storeVars, runnerVars,
                   envVars, restVars>>

\* The leaf's stream ends: close(eventChan).
LeafClose(a) ==
    /\ pc[a] = "run"
    /\ pc' = [pc EXCEPT ![a] = "done"]
    /\ chanClosed' = [chanClosed EXCEPT ![a] = TRUE]
    /\ UNCHANGED <<event, chanLog, agentVars, storeVars, runnerVars, envVars,
                   restVars>>

\* -------------------------------------------------------- agent callbacks

\* `if cb != nil { if err := cb(invocationCtx); err != nil { return } }`:
\* whether the goroutine goes on past the callback.  First a faulty check
\* that ignores the callback's error.
CallbackPassesAlways(cb) == TRUE

CallbackPasses(cb) == cb # "err"

\* The number of invocations after this one: a nil callback is not invoked.
Invoked(cb, n) == IF cb = "nil" THEN n ELSE n + 1

\* -------------------------------------------------------- SequentialAgent

\* A faulty range over SubAgents: from the last sub-agent to the first.
CurrentChildReversed(a) == SubAgents[a][Len(SubAgents[a]) + 1 - idx[a]]

\* The sub-agent the range over a.SubAgents is at.
CurrentChild(a) == SubAgents[a][idx[a]]

\* The goroutine starts with the before-agent callback; when it fails the
\* goroutine returns.
SeqBefore(a) ==
    /\ pc[a] = "start"
    /\ beforeCalled' = [beforeCalled EXCEPT
                           ![a] = Invoked(BeforeAgentCallback[a], @)]
    /\ pc' = [pc EXCEPT ![a] = IF CallbackPasses(BeforeAgentCallback[a])
                               THEN "next" ELSE "closing"]
    /\ UNCHANGED <<event, chanClosed, chanLog, idx, wg, BeforeAgentCallback,
                   AfterAgentCallback, afterCalled, storeVars, runnerVars,
                   envVars, restVars>>

\* A faulty SequentialAgent: a sub-agent whose RunAsync returns an error
\* ends the whole sequence.
SeqStartChildFailFast(a) ==
    /\ pc[a] = "next"
    /\ idx[a] <= Len(SubAgents[a])
    /\ \E ok \in RunAsyncOutcomes(CurrentChild(a)) :
          /\ pc' = [pc EXCEPT
                       ![CurrentChild(a)] = RunAsync(CurrentChild(a), ok),
                       ![a] = IF ok THEN "recv" ELSE "next"]
          /\ idx' = [idx EXCEPT
                        ![a] = IF ok THEN @ ELSE Len(SubAgents[a]) + 1]
    /\ UNCHANGED <<event, chanClosed, chanLog, wg, BeforeAgentCallback,
                   AfterAgentCallback, beforeCalled, afterCalled, storeVars,
                   runnerVars, envVars, restVars>>

\* subAgent.RunAsync for the next sub-agent: on an error `continue` with
\* the one after it, otherwise range over its channel.
SeqStartChild(a) ==
    /\ pc[a] = "next"
    /\ idx[a] <= Len(SubAgents[a])
    /\ \E ok \in RunAsyncOutcomes(CurrentChild(a)) :
          /\ pc' = [pc EXCEPT
                       ![CurrentChild(a)] = RunAsync(CurrentChild(a), ok),
                       ![a] = IF ok THEN "recv" ELSE "next"]
          /\ idx' = [idx EXCEPT ![a] = IF ok THEN @ ELSE @ + 1]
    /\ UNCHANGED <<event, chanClosed, chanLog, wg, BeforeAgentCallback,
                   AfterAgentCallback, beforeCalled, afterCalled, storeVars,
                   runnerVars, envVars, restVars>>

\* `for event := range subEventChan`: take the sub-agent's next event, to
\* send it on with `eventChan <- event`.
SeqForward(a) ==
    /\ pc[a] = "recv"
    /\ Handover(a, CurrentChild(a), "send")
    /\ UNCHANGED <<chanClosed, agentVars, storeVars, runnerVars, envVars,
                   restVars>>

\* The sub-agent's channel is closed: on to the next sub-agent.
SeqChildDone(a) ==
    /\ pc[a] = "recv"
    /\ RangeEnds(a, CurrentChild(a))
    /\ pc' = [pc EXCEPT ![a] = "next"]
    /\ idx' = [idx EXCEPT ![a] = @ + 1]
    /\ UNCHANGED <<event, chanClosed, chanLog, wg, BeforeAgentCallback,
                   AfterAgentCallback, beforeCalled, afterCalled, storeVars,
                   runnerVars, envVars, restVars>>

\* After the last sub-agent: the after-agent callback; the goroutine then
\* returns, whatever the callback answers.
SeqAfter(a) ==
    /\ pc[a] = "next"
    /\ idx[a] > Len(SubAgents[a])
    /\ afterCalled' = [afterCalled EXCEPT
                          ![a] = Invoked(AfterAgentCallback[a], @)]
    /\ pc' = [pc EXCEPT ![a] = "closing"]
    /\ UNCHANGED <<event, chanClosed, chanLog, idx, wg, BeforeAgentCallback,
                   AfterAgentCallback, beforeCalled, storeVars, runnerVars,
                   envVars, restVars>>

\* defer close(eventChan)
SeqClose(a) ==
    /\ pc[a] = "closing"
    /\ chanClosed' = [chanClosed EXCEPT ![a] = TRUE]
    /\ pc' = [pc EXCEPT ![a] = "done"]
    /\ UNCHANGED <<event, chanLog, agentVars, storeVars, runnerVars, envVars,
                   restVars>>

\* ---------------------------------------------------------- ParallelAgent

\* The before-agent callback; when it fails the goroutine returns.
ParBefore(a) ==
    /\ pc[a] = "start"
    /\ beforeCalled' = [beforeCalled EXCEPT
                           ![a] = Invoked(BeforeAgentCallback[a], @)]
    /\ pc' = [pc EXCEPT ![a] = IF CallbackPasses(BeforeAgentCallback[a])
                               THEN "spawn" ELSE "closing"]
    /\ UNCHANGED <<event, chanClosed, chanLog, idx, wg, BeforeAgentCallback,
                   AfterAgentCallback, afterCalled, storeVars, runnerVars,
                   envVars, restVars>>

\* One turn of the range over SubAgents: wg.Add(1) and `go func(agent)`.
ParSpawn(a) ==
    /\ pc[a] = "spawn"
    /\ idx[a] <= Len(SubAgents[a])
    /\ wg' = [wg EXCEPT ![a] = @ + 1]
    /\ pc' = [pc EXCEPT ![Forwarder[CurrentChild(a)]] = "start"]
    /\ idx' = [idx EXCEPT ![a] = @ + 1]
    /\ UNCHANGED <<event, chanClosed, chanLog, BeforeAgentCallback,
                   AfterAgentCallback, beforeCalled, afterCalled, storeVars,
                   runnerVars, envVars, restVars>>

\* The forwarding goroutine calls agent.RunAsync: on an error it returns
\* (and its deferred wg.Done runs), otherwise it ranges over the channel.
ForwarderRunAsync(c) ==
    /\ pc[Forwarder[c]] = "start"
    /\ \E ok \in BOOLEAN :
          /\ pc' = [pc EXCEPT ![c] = LeafRunAsync(ok),
                              ![Forwarder[c]] = IF ok THEN "recv" ELSE "done"]
          /\ wg' = [wg EXCEPT ![ForwarderParent[c]] = IF ok THEN @ ELSE @ - 1]
    /\ UNCHANGED <<event, chanClosed, chanLog, idx, BeforeAgentCallback,
                   AfterAgentCallback, beforeCalled, afterCalled, storeVars,
                   runnerVars, envVars, restVars>>

\* A faulty forwarding goroutine: it takes the event and does not send it.
ParForwardDropped(c) ==
    /\ Handover(Forwarder[c], c, "recv")
    /\ UNCHANGED <<chanClosed, agentVars, storeVars, runnerVars, envVars,
                   restVars>>

\* `for event := range subEventChan`: take the sub-agent's next event, to
\* send it on the ParallelAgent's channel with `eventChan <- event`.
ParForward(c) ==
    /\ Handover(Forwarder[c], c, "send")
    /\ UNCHANGED <<chanClosed, agentVars, storeVars, runnerVars, envVars,
                   restVars>>

\* The sub-agent's channel is closed: the forwarding goroutine returns and
\* its deferred wg.Done runs.
ForwarderDone(c) ==
    /\ RangeEnds(Forwarder[c], c)
    /\ pc' = [pc EXCEPT ![Forwarder[c]] = "done"]
    /\ wg' = [wg EXCEPT ![ForwarderParent[c]] = @ - 1]
    /\ UNCHANGED <<event, chanClosed, chanLog, idx, BeforeAgentCallback,
                   AfterAgentCallback, beforeCalled, afterCalled, storeVars,
                   runnerVars, envVars, restVars>>

\* A faulty ParallelAgent: it does not wait for the forwarding goroutines.
ParWaitNoJoin(a) ==
    /\ pc[a] = "spawn"
    /\ idx[a] > Len(SubAgents[a])
    /\ pc' = [pc EXCEPT ![a] = "after"]
    /\ UNCHANGED <<event, chanClosed, chanLog, agentVars, storeVars,
                   runnerVars, envVars, restVars>>

\* wg.Wait(), after the range over SubAgents: returns once the counter is
\* zero.
ParWait(a) ==
    /\ pc[a] = "spawn"
    /\ idx[a] > Len(SubAgents[a])
    /\ wg[a] = 0
    /\ pc' = [pc EXCEPT ![a] = "after"]
    /\ UNCHANGED <<event, chanClosed, chanLog, agentVars, storeVars,
                   runnerVars, envVars, restVars>>

\* The after-agent callback, then the goroutine returns.
ParAfter(a) ==
    /\ pc[a] = "after"
    /\ afterCalled' = [afterCalled EXCEPT
                          ![a] = Invoked(AfterAgentCallback[a], @)]
    /\ pc' = [pc EXCEPT ![a] = "closing"]
    /\ UNCHANGED <<event, chanClosed, chanLog, idx, wg, BeforeAgentCallback,
                   AfterAgentCallback, beforeCalled, storeVars, runnerVars,
                   envVars, restVars>>

\* defer close(eventChan)
ParClose(a) ==
    /\ pc[a] = "closing"
    /\ chanClosed' = [chanClosed EXCEPT ![a] = TRUE]
    /\ pc' = [pc EXCEPT ![a] = "done"]
    /\ UNCHANGED <<event, chanLog, agentVars, storeVars, runnerVars, envVars,
                   restVars>>

\* ------------------------------------------------- the invocation context

\* The Session object the InvocationContext of an agent run on its own was
\* copied from: the first one allocated.  The copy shares its State.
CtxSession == 1

\* invocationCtx.Session.State: the map of the State the copy points to.
CtxState == heap[CtxSession].State

\* invocationCtx.Session.State.Set(key, value)
CtxStateSet(key, value) ==
    /\ heap' = [heap EXCEPT ![CtxSession].State = Set(@, key, value)]
    /\ UNCHANGED sessions

\* The values holders of the context give the key exit_loop: the booleans,
\* and a string.
ExitValues == {Bool(TRUE), Bool(FALSE), Str("true")}

\* A holder of the invocation context (a sub-agent, a tool, a callback)
\* calls State.Set("exit_loop", v) with a new value: any of the values
\* between two iterations of the loop, and true by the first sub-agent
\* of the first iteration before it sends its first event.  shouldExitLoop is the only reader of the key and Set is
\* atomic under the State's lock.
StateSetExitLoop ==
    /\ \E v \in ExitValues :
          /\ \E a \in LoopAgents :
                \/ pc[a] = "iter"
                \/ /\ pc[a] = "recv"
                   /\ idx[a] = 1
                   /\ iteration[a] = 0
                   /\ chanLog[CurrentChild(a)] = <<>>
                   /\ pc[CurrentChild(a)] = "run"
                   /\ v = Bool(TRUE)
          /\ Get(CtxState, "exit_loop") # <<v, TRUE>>
          /\ CtxStateSet("exit_loop", v)
    /\ UNCHANGED <<pc, event, chanClosed, chanLog, agentVars, runnerVars,
                   envVars, MaxIterations, iteration, runLog, checks,
                   llmVars, registryVars, taskVars, moreVars>>

\* -------------------------------------------------------------- LoopAgent

\* A faulty shouldExitLoop: any value under the key stops the loop.
shouldExitLoopOnAnyValue(found) == found[2]

\* LoopAgent.shouldExitLoop, on what State.Get("exit_loop") returned: the
\* key exists, its value is a bool, and it is true.
shouldExitLoop(found) ==
    /\ found[2]
    /\ found[1][1] = "bool"
    /\ found[1][2] = "true"

\* A faulty shouldExitLoopFromEvent: no event stops the loop.
shouldExitLoopFromEventNever(e) == FALSE

\* LoopAgent.shouldExitLoopFromEvent
shouldExitLoopFromEvent(e) == e.SkipSummarization

\* A faulty loop condition: one iteration too many.
LoopContinuesOnceMore(a) == iteration[a] <= MaxIterations[a]

\* The loop condition `iteration < a.MaxIterations`.
LoopContinues(a) == iteration[a] < MaxIterations[a]

\* The before-agent callback; when it fails the goroutine returns.
LoopBefore(a) ==
    /\ pc[a] = "start"
    /\ beforeCalled' = [beforeCalled EXCEPT
                           ![a] = Invoked(BeforeAgentCallback[a], @)]
    /\ pc' = [pc EXCEPT ![a] = IF CallbackPasses(BeforeAgentCallback[a])
                               THEN "iter" ELSE "closing"]
    /\ UNCHANGED <<event, chanClosed, chanLog, idx, wg, BeforeAgentCallback,
                   AfterAgentCallback, afterCalled, storeVars, runnerVars,
                   envVars, restVars>>

\* The head of the outer loop: when the cap is reached the loop ends;
\* otherwise shouldExitLoop reads the State and either breaks or lets the
\* range over SubAgents begin.
LoopIteration(a) ==
    /\ pc[a] = "iter"
    /\ LET found == Get(CtxState, "exit_loop")
       IN  IF LoopContinues(a)
           THEN /\ checks' = [checks EXCEPT ![a] = Append(@, found)]
                /\ pc' = [pc EXCEPT ![a] = IF shouldExitLoop(found)
                                           THEN "after" ELSE "next"]
           ELSE /\ pc' = [pc EXCEPT ![a] = "after"]
                /\ UNCHANGED checks
    /\ idx' = [idx EXCEPT ![a] = 1]
    /\ UNCHANGED <<event, chanClosed, chanLog, wg, BeforeAgentCallback,
                   AfterAgentCallback, beforeCalled, afterCalled, storeVars,
                   runnerVars, envVars, MaxIterations, iteration, runLog,
                   llmVars, registryVars, taskVars, moreVars>>

\* A faulty LoopAgent: it reads exit_loop before every sub-agent and
\* leaves the loop when it is true.
LoopStartChildUnlessExit(a) ==
    /\ pc[a] = "next"
    /\ idx[a] <= Len(SubAgents[a])
    /\ IF shouldExitLoop(Get(CtxState, "exit_loop"))
       THEN /\ pc' = [pc EXCEPT ![a] = "after"]
            /\ UNCHANGED <<idx, chanClosed, runLog>>
       ELSE /\ \E ok \in BOOLEAN :
                  /\ pc' = [pc EXCEPT
                               ![CurrentChild(a)] = LeafRunAsync(ok),
                               ![a] = IF ok THEN "recv" ELSE "next"]
                  /\ idx' = [idx EXCEPT ![a] = IF ok THEN @ ELSE @ + 1]
                  /\ chanClosed' =
                        [chanClosed EXCEPT
                            ![CurrentChild(a)] = IF ok THEN FALSE ELSE @]
            /\ runLog' = [runLog EXCEPT
                             ![a] = Append(@, <<iteration[a],
                                                CurrentChild(a)>>)]
    /\ UNCHANGED <<event, chanLog, wg, BeforeAgentCallback,
                   AfterAgentCallback, beforeCalled, afterCalled, storeVars,
                   runnerVars, envVars, MaxIterations, iteration, checks,
                   llmVars, registryVars, taskVars, moreVars>>

\* subAgent.RunAsync for the next sub-agent, which makes a new channel: on
\* an error `continue` with the one after it, otherwise range over the
\* channel.
LoopStartChild(a) ==
    /\ pc[a] = "next"
    /\ idx[a] <= Len(SubAgents[a])
    /\ \E ok \in BOOLEAN :
          /\ pc' = [pc EXCEPT ![CurrentChild(a)] = LeafRunAsync(ok),
                              ![a] = IF ok THEN "recv" ELSE "next"]
          /\ idx' = [idx EXCEPT ![a] = IF ok THEN @ ELSE @ + 1]
          /\ chanClosed' = [chanClosed EXCEPT
                               ![CurrentChild(a)] = IF ok THEN FALSE ELSE @]
    /\ runLog' = [runLog EXCEPT
                     ![a] = Append(@, <<iteration[a], CurrentChild(a)>>)]
    /\ UNCHANGED <<event, chanLog, wg, BeforeAgentCallback,
                   AfterAgentCallback, beforeCalled, afterCalled, storeVars,
                   runnerVars, envVars, MaxIterations, iteration, checks,
                   llmVars, registryVars, taskVars, moreVars>>

\* `for event := range subEventChan`: take the sub-agent's next event, to
\* send it on with `eventChan <- event`.
LoopForward(a) ==
    /\ pc[a] = "recv"
    /\ Handover(a, CurrentChild(a), "send")
    /\ UNCHANGED <<chanClosed, agentVars, storeVars, runnerVars, envVars,
                   restVars>>

\* After the send: shouldExitLoopFromEvent on the event just sent, and
\* `goto exitLoop` when it asks for the exit.
LoopCheckEvent(a) ==
    /\ pc[a] = "check"
    /\ pc' = [pc EXCEPT
                 ![a] = IF shouldExitLoopFromEvent(
                                chanLog[a][Len(chanLog[a])])
                        THEN "after" ELSE "recv"]
    /\ UNCHANGED <<event, chanClosed, chanLog, agentVars, storeVars,
                   runnerVars, envVars, restVars>>

\* The sub-agent's channel is closed: on to the next sub-agent.
LoopChildDone(a) ==
    /\ pc[a] = "recv"
    /\ RangeEnds(a, CurrentChild(a))
    /\ pc' = [pc EXCEPT ![a] = "next"]
    /\ idx' = [idx EXCEPT ![a] = @ + 1]
    /\ UNCHANGED <<event, chanClosed, chanLog, wg, BeforeAgentCallback,
                   AfterAgentCallback, beforeCalled, afterCalled, storeVars,
                   runnerVars, envVars, restVars>>

\* A faulty LoopAgent: the after-agent callback is invoked at the end of
\* every pass.
LoopPassDoneWithCallback(a) ==
    /\ pc[a] = "next"
    /\ idx[a] > Len(SubAgents[a])
    /\ iteration' = [iteration EXCEPT ![a] = @ + 1]
    /\ afterCalled' = [afterCalled EXCEPT
                          ![a] = Invoked(AfterAgentCallback[a], @)]
    /\ pc' = [pc EXCEPT ![a] = "iter"]
    /\ UNCHANGED <<event, chanClosed, chanLog, idx, wg, BeforeAgentCallback,
                   AfterAgentCallback, beforeCalled, storeVars, runnerVars,
                   envVars, MaxIterations, runLog, checks,
                   llmVars, registryVars, taskVars, moreVars>>

\* The range over SubAgents is over: `iteration++`.
LoopPassDone(a) ==
    /\ pc[a] = "next"
    /\ idx[a] > Len(SubAgents[a])
    /\ iteration' = [iteration EXCEPT ![a] = @ + 1]
    /\ pc' = [pc EXCEPT ![a] = "iter"]
    /\ UNCHANGED <<event, chanClosed, chanLog, agentVars, storeVars,
                   runnerVars, envVars, MaxIterations, runLog, checks,
                   llmVars, registryVars, taskVars, moreVars>>

\* exitLoop: the after-agent callback, then the goroutine returns.
LoopAfter(a) ==
    /\ pc[a] = "after"
    /\ afterCalled' = [afterCalled EXCEPT
                          ![a] = Invoked(AfterAgentCallback[a], @)]
    /\ pc' = [pc EXCEPT ![a] = "closing"]
    /\ UNCHANGED <<event, chanClosed, chanLog, idx, wg, BeforeAgentCallback,
                   AfterAgentCallback, beforeCalled, storeVars, runnerVars,
                   envVars, restVars>>

\* defer close(eventChan)
LoopClose(a) ==
    /\ pc[a] = "closing"
    /\ chanClosed' = [chanClosed EXCEPT ![a] = TRUE]
    /\ pc' = [pc EXCEPT ![a] = "done"]
    /\ UNCHANGED <<event, chanLog, agentVars, storeVars, runnerVars, envVars,
                   restVars>>

\* --------------------------------------------------------- model registry

\* The model names agents and callers ask for.
ModelNames == {"gemini-a", "gemini-b", "gpt-x"}

\* The model types a factory can be registered for.
ModelTypes == {"gemini", "custom"}

\* An LLM interface value: its type word and its data word.  The nil
\* interface has both words nil; a value no call has returned yet is
\* written NotReturned.
NilLLM == [tab |-> "nil", data |-> <<"nil", 0>>]
NotReturned == [tab |-> "none", data |-> <<"nil", 0>>]

\* The factory init() registers: NewGeminiLLM allocates the n-th GeminiLLM
\* made for the name.
NewGeminiLLM(modelName, n) ==
    [tab |-> "*GeminiLLM", data |-> <<modelName, n>>]

\* NewLLM's model type: "gemini" for a name that starts with it, none
\* otherwise.
ModelType(modelName) ==
    IF Len(modelName) >= 6 /\ SubSeq(modelName, 1, 6) = "gemini"
    THEN "gemini" ELSE ""

\* A faulty NewLLM: no check of the name or of the factory.
NewLLMResultAnyName(modelName) ==
    IF modelName \in DOMAIN instances THEN instances[modelName]
    ELSE NewGeminiLLM(modelName, factoryCalls[modelName] + 1)

\* models.NewLLM, what it returns: the cached instance; or nil (with an
\* error) for an unsupported name or a type without factory; or the
\* instance the factory makes.
NewLLMResult(modelName) ==
    IF modelName \in DOMAIN instances THEN instances[modelName]
    ELSE IF ModelType(modelName) = "" \/ ModelType(modelName) \notin models
    THEN NilLLM
    ELSE NewGeminiLLM(modelName, factoryCalls[modelName] + 1)

\* models.NewLLM (and Resolve, its alias), what it does to the registry
\* under the lock: an instance the factory made is cached under the name.
NewLLM(modelName) ==
    LET made == /\ modelName \notin DOMAIN instances
                /\ NewLLMResult(modelName) # NilLLM
    IN  /\ instances' =
              IF made
              THEN [n \in DOMAIN instances \cup {modelName} |->
                       IF n = modelName THEN NewLLMResult(modelName)
                       ELSE instances[n]]
              ELSE instances
        /\ factoryCalls' =
              IF made THEN [factoryCalls EXCEPT ![modelName] = @ + 1]
              ELSE factoryCalls
        /\ UNCHANGED models

\* models.Register, under the lock.
Register(modelType) ==
    /\ models' = models \cup {modelType}
    /\ UNCHANGED <<instances, factoryCalls, moreVars>>

\* --------------------------------------------------------------- LlmAgent

\* The values of LlmAgent.IncludeContents.
IncludeContentsDefault == "default"
IncludeContentsNone == "none"

\* The Contents the backend's n-th event can have: nil, no Parts, or Parts
\* whose first Text is its own.
Responses(n) == {NilContent, NoParts, "text" \o ToString(n)}

\* The before-agent callback; when it fails the goroutine returns.
LlmBefore(a) ==
    /\ pc[a] = "start"
    /\ beforeCalled' = [beforeCalled EXCEPT
                           ![a] = Invoked(BeforeAgentCallback[a], @)]
    /\ pc' = [pc EXCEPT ![a] = IF CallbackPasses(BeforeAgentCallback[a])
                               THEN "beforeModel" ELSE "closing"]
    /\ UNCHANGED <<event, chanClosed, chanLog, idx, wg, BeforeAgentCallback,
                   AfterAgentCallback, afterCalled, storeVars, runnerVars,
                   envVars, restVars>>

\* The before-model callback; when it fails the goroutine returns.
LlmBeforeModel(a) ==
    /\ pc[a] = "beforeModel"
    /\ beforeModelCalled' = [beforeModelCalled EXCEPT
                                ![a] = Invoked(BeforeModelCallback[a], @)]
    /\ pc' = [pc EXCEPT ![a] = IF CallbackPasses(BeforeModelCallback[a])
                               THEN "resolve" ELSE "closing"]
    /\ UNCHANGED <<event, chanClosed, chanLog, agentVars, storeVars,
                   runnerVars, envVars, loopVars, BeforeModelCallback,
                   AfterModelCallback, afterModelCalled, Model, OutputKey,
                   llm, respBuf, genCalled, stored, registryVars, taskVars,
                   moreVars>>

\* a.GetCanonicalModel(), run by the agent's only goroutine: a.llm when it
\* is set; otherwise models.Resolve(a.Model), kept in a.llm unless it
\* failed.  A nil model makes the goroutine return.
LlmResolve(a) ==
    /\ pc[a] = "resolve"
    /\ LET r == IF llm[a] # NilLLM THEN llm[a] ELSE NewLLMResult(Model[a])
       IN  /\ IF llm[a] # NilLLM
              THEN UNCHANGED registryVars
              ELSE NewLLM(Model[a])
           /\ llm' = [llm EXCEPT ![a] = r]
           /\ pc' = [pc EXCEPT ![a] = IF r = NilLLM THEN "closing"
                                       ELSE "generate"]
    /\ UNCHANGED <<event, chanClosed, chanLog, agentVars, storeVars,
                   runnerVars, envVars, loopVars, BeforeModelCallback,
                   AfterModelCallback, beforeModelCalled, afterModelCalled,
                   Model, OutputKey, respBuf, genCalled, stored, taskVars,
                   moreVars>>

\* LlmAgent.GetCanonicalInstruction, for an agent without a
\* GlobalInstruction.
GetCanonicalInstruction(a) == Instruction[a]

\* The Content with Role "system" that holds an instruction.
SystemContent(text) == "system:" \o text

\* The non-nil Contents of a list of events, in the list's order.
RECURSIVE ContentsOf(_)
ContentsOf(evs) ==
    IF evs = <<>> THEN <<>>
    ELSE (IF Head(evs).content # NilContent THEN <<Head(evs).content>>
          ELSE <<>>) \o ContentsOf(Tail(evs))

\* LlmAgent.buildContents: the instruction if it is not empty, then the
\* Contents of invocationCtx.Session.Events.
buildContents(a) ==
    (IF GetCanonicalInstruction(a) # ""
     THEN <<SystemContent(GetCanonicalInstruction(a))>> ELSE <<>>)
        \o ContentsOf(ctxEvents[Invocation[a]])

\* LlmAgent.buildLLMRequest: request.Contents.
buildLLMRequest(a) ==
    IF IncludeContents[a] = IncludeContentsDefault THEN buildContents(a)
    ELSE <<SystemContent(GetCanonicalInstruction(a))>>

\* buildLLMRequest, then llm.GenerateContentAsync: an error makes the goroutine return;
\* otherwise the backend's goroutine runs and the agent ranges over the
\* response channel.
LlmGenerate(a) ==
    /\ pc[a] = "generate"
    /\ contents' = [contents EXCEPT ![a] = buildLLMRequest(a)]
    /\ genCalled' = [genCalled EXCEPT ![a] = @ + 1]
    /\ \E ok \in BOOLEAN :
          pc' = [pc EXCEPT ![a] = IF ok THEN "recv" ELSE "closing",
                           ![Backend[a]] = IF ok THEN "run" ELSE @]
    /\ UNCHANGED <<event, chanClosed, chanLog, agentVars, storeVars,
                   runnerVars, envVars, loopVars, BeforeModelCallback,
                   AfterModelCallback, beforeModelCalled, afterModelCalled,
                   Model, OutputKey, llm, respBuf, stored, registryVars,
                   taskVars, sessionOpVars, ctxVars, treeVars,
                   IncludeContents, Instruction>>

\* The capacity of the response channel GeminiLLM makes.
RespCap == 1

\* The backend's goroutine sends an event on the response channel, which
\* takes it when its buffer has room.  GeminiLLM sends one final response
\* with one Part; another LLM may send any events.
BackendEmit(a) ==
    /\ pc[Backend[a]] = "run"
    /\ Len(chanLog[Backend[a]]) < MaxEmit
    /\ Len(respBuf[a]) < RespCap
    /\ \E final \in BOOLEAN,
          content \in Responses(Len(chanLog[Backend[a]]) + 1) :
          LET e == [NewEvent(Backend[a], Len(chanLog[Backend[a]]) + 1,
                             Model[a], content)
                       EXCEPT !.IsFinalResponse = final]
          IN  /\ respBuf' = [respBuf EXCEPT ![a] = Append(@, e)]
              /\ chanLog' = [chanLog EXCEPT ![Backend[a]] = Append(@, e)]
    /\ UNCHANGED <<pc, event, chanClosed, agentVars, storeVars, runnerVars,
                   envVars, loopVars, BeforeModelCallback,
                   AfterModelCallback, beforeModelCalled, afterModelCalled,
                   Model, OutputKey, llm, genCalled, stored, registryVars,
                   taskVars, moreVars>>

\* The backend's goroutine returns: defer close(eventChan).
BackendClose(a) ==
    /\ pc[Backend[a]] = "run"
    /\ pc' = [pc EXCEPT ![Backend[a]] = "done"]
    /\ chanClosed' = [chanClosed EXCEPT ![Backend[a]] = TRUE]
    /\ UNCHANGED <<event, chanLog, agentVars, storeVars, runnerVars, envVars,
                   restVars>>

\* A faulty output-key test: any event with a Content is stored.
ShouldStoreAnyEvent(a, e) ==
    /\ OutputKey[a] # ""
    /\ e.content # NilContent

\* `a.OutputKey != "" && event.IsFinalResponse && event.Content != nil`
ShouldStore(a, e) ==
    /\ OutputKey[a] # ""
    /\ e.IsFinalResponse
    /\ e.content # NilContent

\* `event.Content != nil && len(event.Content.Parts) > 0`
HasParts(content) == content # NilContent /\ content # NoParts

\* A faulty storeOutputInSession: nothing is written.
storeOutputInSessionSkipped(data, key, e) == data

\* LlmAgent.storeOutputInSession applied to the State's map: the Text of
\* the first Part goes under the output key, when there is a Part.
storeOutputInSession(data, key, e) ==
    IF HasParts(e.content)
    THEN Set(data, key, Str(e.content))
    ELSE data

\* One turn of `for event := range responseEventChan`: take the next
\* event (hasToolCalls is false for every event), store it in the session
\* when the output key asks for it, and then block on `eventChan <- event`.
LlmProcess(a) ==
    /\ pc[a] = "recv"
    /\ respBuf[a] # <<>>
    /\ LET e == Head(respBuf[a])
       IN  /\ event' = [event EXCEPT ![a] = e]
           /\ heap' = IF ShouldStore(a, e)
                      THEN [heap EXCEPT ![CtxSession].State =
                               storeOutputInSession(@, OutputKey[a], e)]
                      ELSE heap
           /\ stored' = [stored EXCEPT
                            ![a] = IF ShouldStore(a, e) /\ HasParts(e.content)
                                   THEN Append(@, e) ELSE @]
    /\ respBuf' = [respBuf EXCEPT ![a] = Tail(@)]
    /\ pc' = [pc EXCEPT ![a] = "send"]
    /\ UNCHANGED <<chanClosed, chanLog, agentVars, sessions, runnerVars,
                   envVars, loopVars, BeforeModelCallback,
                   AfterModelCallback, beforeModelCalled, afterModelCalled,
                   Model, OutputKey, llm, genCalled, registryVars, taskVars,
                   moreVars>>

\* The response channel is closed and drained: the after-model callback;
\* when it fails the goroutine returns.
LlmAfterModel(a) ==
    /\ pc[a] = "recv"
    /\ respBuf[a] = <<>>
    /\ chanClosed[Backend[a]]
    /\ afterModelCalled' = [afterModelCalled EXCEPT
                               ![a] = Invoked(AfterModelCallback[a], @)]
    /\ pc' = [pc EXCEPT ![a] = IF CallbackPasses(AfterModelCallback[a])
                               THEN "after" ELSE "closing"]
    /\ UNCHANGED <<event, chanClosed, chanLog, agentVars, storeVars,
                   runnerVars, envVars, loopVars, BeforeModelCallback,
                   AfterModelCallback, beforeModelCalled, Model, OutputKey,
                   llm, respBuf, genCalled, stored, registryVars, taskVars,
                   moreVars>>

\* The after-agent callback, then the goroutine returns.
LlmAfter(a) ==
    /\ pc[a] = "after"
    /\ afterCalled' = [afterCalled EXCEPT
                          ![a] = Invoked(AfterAgentCallback[a], @)]
    /\ pc' = [pc EXCEPT ![a] = "closing"]
    /\ UNCHANGED <<event, chanClosed, chanLog, idx, wg, BeforeAgentCallback,
                   AfterAgentCallback, beforeCalled, storeVars, runnerVars,
                   envVars, restVars>>

\* defer close(eventChan)
LlmClose(a) ==
    /\ pc[a] = "closing"
    /\ chanClosed' = [chanClosed EXCEPT ![a] = TRUE]
    /\ pc' = [pc EXCEPT ![a] = "done"]
    /\ UNCHANGED <<event, chanLog, agentVars, storeVars, runnerVars, envVars,
                   restVars>>

\* ------------------------------------------------- two tasks on one State

\* The keys of the bulk update, its pairs, and the values the keys can
\* hold before it.
Keys == {"k1", "k2"}
Updates == [k1 |-> Str("v1"), k2 |-> Str("v2")]
OldValues == [k1 |-> Str("o1"), k2 |-> Str("o2")]

\* A faulty RLock: it does not wait for the writer.
CanRLockAlways(mu) == TRUE

\* s.mu.RLock() returns once no writer holds the lock.
CanRLock(mu) == mu = "free"

\* State.Update: s.mu.Lock().
UpdateLock(t) ==
    /\ pc[t] = "update"
    /\ stateMu = "free"
    /\ stateMu' = t
    /\ pending' = DOMAIN Updates
    /\ pc' = [pc EXCEPT ![t] = "locked"]
    /\ UNCHANGED <<event, chanClosed, chanLog, agentVars, storeVars,
                   runnerVars, envVars, loopVars, llmVars, registryVars,
                   got, request, local, wordsLeft, returned, moreVars>>

\* State.Update: one turn of `for key, value := range updates`, in the
\* order the map's iteration takes.
UpdateWrite(t) ==
    /\ pc[t] = "locked"
    /\ \E key \in pending :
          /\ CtxStateSet(key, Updates[key])
          /\ pending' = pending \ {key}
    /\ UNCHANGED <<pc, event, chanClosed, chanLog, agentVars, runnerVars,
                   envVars, loopVars, llmVars, registryVars, stateMu, got,
                   request, local, wordsLeft, returned, moreVars>>

\* State.Update: the range is over and the deferred s.mu.Unlock() runs.
UpdateUnlock(t) ==
    /\ pc[t] = "locked"
    /\ pending = {}
    /\ stateMu' = "free"
    /\ pc' = [pc EXCEPT ![t] = "done"]
    /\ UNCHANGED <<event, chanClosed, chanLog, agentVars, storeVars,
                   runnerVars, envVars, loopVars, llmVars, registryVars,
                   pending, got, request, local, wordsLeft, returned,
                   moreVars>>

\* The sibling calls State.Get on a key it has not read yet: RLock, the
\* read, RUnlock.
SiblingGet(t) ==
    /\ pc[t] = "get"
    /\ CanRLock(stateMu)
    /\ \E key \in Keys \ {got[i][1] : i \in 1..Len(got)} :
          /\ got' = Append(got, <<key, Get(CtxState, key)>>)
          /\ pc' = [pc EXCEPT ![t] = IF Len(got') = Cardinality(Keys)
                                      THEN "done" ELSE "get"]
    /\ UNCHANGED <<event, chanClosed, chanLog, agentVars, storeVars,
                   runnerVars, envVars, loopVars, llmVars, registryVars,
                   stateMu, pending, request, local, wordsLeft, returned,
                   moreVars>>

\* -------------------------------------------- concurrent model resolution

\* The LlmAgent whose GetCanonicalModel the callers call.
SharedAgent == "llm"

\* A caller calls models.NewLLM (or Resolve) with a model name.
CallNewLLM(c) ==
    /\ pc[c] = "call"
    /\ request[c] \in ModelNames
    /\ NewLLM(request[c])
    /\ returned' = [returned EXCEPT ![c] = NewLLMResult(request[c])]
    /\ pc' = [pc EXCEPT ![c] = "done"]
    /\ UNCHANGED <<event, chanClosed, chanLog, agentVars, storeVars,
                   runnerVars, envVars, loopVars, llmVars, stateMu, pending,
                   got, request, local, wordsLeft, moreVars>>

\* GetCanonicalModel: `if a.llm == nil`, a read of the interface's type
\* word that no lock orders with the stores of other goroutines.
GcmCheck(c) ==
    /\ pc[c] = "call"
    /\ request[c] = "GetCanonicalModel"
    /\ pc' = [pc EXCEPT ![c] = IF llm[SharedAgent].tab = "nil"
                               THEN "resolve" ELSE "return"]
    /\ UNCHANGED <<event, chanClosed, chanLog, agentVars, storeVars,
                   runnerVars, envVars, restVars>>

\* GetCanonicalModel: models.Resolve(a.Model); on an error it returns nil.
GcmResolve(c) ==
    /\ pc[c] = "resolve"
    /\ NewLLM(Model[SharedAgent])
    /\ LET r == NewLLMResult(Model[SharedAgent])
       IN  /\ local' = [local EXCEPT ![c] = r]
           /\ wordsLeft' = [wordsLeft EXCEPT
                               ![c] = IF r = NilLLM THEN {}
                                      ELSE {"tab", "data"}]
           /\ returned' = [returned EXCEPT
                              ![c] = IF r = NilLLM THEN NilLLM ELSE @]
           /\ pc' = [pc EXCEPT ![c] = IF r = NilLLM THEN "done"
                                       ELSE "write"]
    /\ UNCHANGED <<event, chanClosed, chanLog, agentVars, storeVars,
                   runnerVars, envVars, loopVars, llmVars, stateMu, pending,
                   got, request, moreVars>>

\* GetCanonicalModel: `a.llm = llm`, an unsynchronised store of a two-word
\* value: one word at a time, in either order.
GcmWrite(c) ==
    /\ pc[c] = "write"
    /\ \E w \in wordsLeft[c] :
          /\ llm' = [llm EXCEPT
                        ![SharedAgent] =
                            IF w = "tab"
                            THEN [@ EXCEPT !.tab = local[c].tab]
                            ELSE [@ EXCEPT !.data = local[c].data]]
          /\ wordsLeft' = [wordsLeft EXCEPT ![c] = @ \ {w}]
          /\ pc' = [pc EXCEPT ![c] = IF wordsLeft[c] = {w} THEN "return"
                                      ELSE "write"]
    /\ UNCHANGED <<event, chanClosed, chanLog, agentVars, storeVars,
                   runnerVars, envVars, loopVars, BeforeModelCallback,
                   AfterModelCallback, beforeModelCalled, afterModelCalled,
                   Model, OutputKey, respBuf, genCalled, stored,
                   registryVars, stateMu, pending, got, request, local,
                   returned, moreVars>>

\* GetCanonicalModel: `return a.llm`, an unsynchronised read of both words.
GcmReturn(c) ==
    /\ pc[c] = "return"
    /\ returned' = [returned EXCEPT ![c] = llm[SharedAgent]]
    /\ pc' = [pc EXCEPT ![c] = "done"]
    /\ UNCHANGED <<event, chanClosed, chanLog, agentVars, storeVars,
                   runnerVars, envVars, loopVars, llmVars, registryVars,
                   stateMu, pending, got, request, local, wordsLeft,
                   moreVars>>

\* Another goroutine registers a factory for a model type.
RegisterFactory ==
    /\ \E t \in ModelTypes : t \notin models /\ Register(t)
    /\ UNCHANGED <<pc, event, chanClosed, chanLog, agentVars, storeVars,
                   runnerVars, envVars, loopVars, llmVars, taskVars,
                   moreVars>>

\* ------------------------------------- the consumer of a workflow agent

\* The consumer takes the next event sent on the agent's channel.
HarnessRecv(a) ==
    /\ \E p \in Procs :
          /\ SendChan(p) = a
          /\ Handover(Harness[a], p, "recv")
    /\ UNCHANGED <<chanClosed, agentVars, storeVars, runnerVars, envVars,
                   restVars>>

\* The consumer's range ends: the agent's channel is closed.
HarnessDone(a) ==
    /\ RangeEnds(Harness[a], a)
    /\ pc' = [pc EXCEPT ![Harness[a]] = "done"]
    /\ UNCHANGED <<event, chanClosed, chanLog, agentVars, storeVars,
                   runnerVars, envVars, restVars>>

\* ----------------------------------------------------------------- Runner

\* A faulty user event: the Author is left unset.
UserEventNoAuthor(r) == NewEvent(r, 0, "", newMessage[r])

\* The user event RunAsync synthesizes from newMessage.
UserEvent(r) == NewEvent(r, 0, "user", newMessage[r])

\* Where RunAsync goes once it has its session: `if newMessage != nil`.
AfterSession(r) == IF newMessage[r] # NilContent THEN "addEvent" ELSE "invoke"

\* A faulty getOrCreateSession: the error of GetSession is not looked at.
AfterGetSessionIgnoringError(r, err, s) ==
    IF s = 0 THEN "create" ELSE AfterSession(r)

\* Where RunAsync goes after GetSession: an error makes it return
\* (nil, err); a nil session makes getOrCreateSession call CreateSession.
AfterGetSession(r, err, s) ==
    IF err THEN "done"
    ELSE IF s = 0 THEN "create" ELSE AfterSession(r)

\* What the store holds under the invocation's key when getOrCreateSession
\* looks it up.
Lookup(r, err) ==
    LET key == sessionKey(AppName, UserID[r], SessionID[r])
    IN  IF err
        THEN [how |-> "failed", Events |-> <<>>, State |-> NewState]
        ELSE IF key \in DOMAIN sessions
        THEN [how |-> "found", Events |-> heap[sessions[key]].Events,
              State |-> heap[sessions[key]].State]
        ELSE [how |-> "absent", Events |-> <<>>, State |-> NewState]

\* getOrCreateSession, first half: SessionService.GetSession.  The service
\* is an interface: InMemorySessionService returns no error, another
\* implementation may.
RunnerGetSession(r) ==
    /\ pc[r] = "start"
    /\ \E err \in BOOLEAN :
          LET s == IF err THEN 0
                   ELSE GetSession(AppName, UserID[r], SessionID[r])
          IN  /\ session' = [session EXCEPT ![r] = s]
              /\ resolved' = [resolved EXCEPT ![r] = Lookup(r, err)]
              /\ result' = [result EXCEPT ![r] = IF err THEN "error" ELSE @]
              /\ pc' = [pc EXCEPT ![r] = AfterGetSession(r, err, s)]
    /\ UNCHANGED <<event, chanClosed, chanLog, agentVars, storeVars,
                   newMessage, eventsRead, appendCalled, persistedBy,
                   dropped, envVars, loopVars, llmVars, registryVars,
                   taskVars, live, reply, ctxVars, treeVars, requestVars>>

\* getOrCreateSession, second half: SessionService.CreateSession, taken
\* when GetSession returned nil; an error makes RunAsync return (nil, err).
RunnerCreateSession(r) ==
    /\ pc[r] = "create"
    /\ \E err \in BOOLEAN :
          IF err
          THEN /\ UNCHANGED <<storeVars, session>>
               /\ resolved' = [resolved EXCEPT ![r].how = "failed"]
               /\ result' = [result EXCEPT ![r] = "error"]
               /\ pc' = [pc EXCEPT ![r] = "done"]
          ELSE /\ CreateSession(AppName, UserID[r], SessionID[r], NewState)
               /\ session' = [session EXCEPT ![r] = Len(heap) + 1]
               /\ resolved' = [resolved EXCEPT
                                  ![r].how = IF @ = "absent" THEN "created"
                                             ELSE "replaced"]
               /\ UNCHANGED result
               /\ pc' = [pc EXCEPT ![r] = AfterSession(r)]
    /\ UNCHANGED <<event, chanClosed, chanLog, agentVars, newMessage,
                   eventsRead, appendCalled, persistedBy, dropped,
                   envVars, loopVars, llmVars, registryVars, taskVars, live,
                   reply, ctxVars, treeVars, requestVars>>

\* session.AddEvent(userEvent), outside the store's lock: it reads
\* s.Events ...
RunnerAddEventRead(r) ==
    /\ pc[r] = "addEvent"
    /\ eventsRead' = [eventsRead EXCEPT ![r] = heap[session[r]].Events]
    /\ pc' = [pc EXCEPT ![r] = "addEventWrite"]
    /\ UNCHANGED <<event, chanClosed, chanLog, agentVars, storeVars,
                   newMessage, session, result, appendCalled, persistedBy,
                   dropped, envVars, restVars>>

\* ... and writes back the list it read with the user event appended.
RunnerAddEventWrite(r) ==
    /\ pc[r] = "addEventWrite"
    /\ heap' = [heap EXCEPT ![session[r]].Events =
                               AddEvent(eventsRead[r], UserEvent(r))]
    /\ persistedBy' = [persistedBy EXCEPT ![r] = Append(@, UserEvent(r))]
    /\ eventsRead' = [eventsRead EXCEPT ![r] = <<>>]
    /\ pc' = [pc EXCEPT ![r] = "appendUser"]
    /\ UNCHANGED <<event, chanClosed, chanLog, agentVars, sessions,
                   newMessage, session, result, appendCalled, dropped,
                   envVars, restVars>>

\* The history of one AppendEvent call of invocation r.
NoteAppend(r, e) ==
    IF AppendFinds(AppName, UserID[r], SessionID[r])
    THEN /\ persistedBy' = [persistedBy EXCEPT ![r] = Append(@, e)]
         /\ UNCHANGED dropped
    ELSE /\ dropped' = [dropped EXCEPT ![r] = @ \cup {e.id}]
         /\ UNCHANGED persistedBy

\* r.SessionService.AppendEvent(..., userEvent); the result is ignored.
RunnerAppendUser(r) ==
    /\ pc[r] = "appendUser"
    /\ AppendEvent(AppName, UserID[r], SessionID[r], UserEvent(r))
    /\ NoteAppend(r, UserEvent(r))
    /\ pc' = [pc EXCEPT ![r] = "invoke"]
    /\ UNCHANGED <<event, chanClosed, chanLog, agentVars, newMessage,
                   session, eventsRead, result, appendCalled, envVars,
                   restVars>>

\* r.Agent.RunAsync: on an error RunAsync returns (nil, err); otherwise it
\* starts the relay goroutine and returns outputChan, which the caller
\* ranges over.
RunnerInvoke(r) ==
    /\ pc[r] = "invoke"
    /\ ctxEvents' = [ctxEvents EXCEPT ![r] = heap[session[r]].Events]
    /\ \E ok \in RunAsyncOutcomes(Root[r]) :
          /\ pc' = [pc EXCEPT ![Root[r]] = RunAsync(Root[r], ok),
                              ![Relay[r]] = IF ok THEN "recv" ELSE @,
                              ![r] = IF ok THEN "recv" ELSE "done"]
          /\ result' = [result EXCEPT ![r] = IF ok THEN "chan" ELSE "error"]
    /\ UNCHANGED <<event, chanClosed, chanLog, agentVars, storeVars,
                   newMessage, session, eventsRead, appendCalled,
                   persistedBy, dropped, envVars, loopVars, llmVars,
                   registryVars, taskVars, sessionOpVars, cancelled,
                   logAtCancel, treeVars, requestVars>>

\* The relay goroutine: `for event := range eventChan`.
RelayRecv(r) ==
    /\ Handover(Relay[r], Root[r], "persist")
    /\ UNCHANGED <<chanClosed, agentVars, storeVars, runnerVars, envVars,
                   restVars>>

\* A faulty relay: the event is sent on without being persisted.
RelayPersistSkipped(r) ==
    /\ pc[Relay[r]] = "persist"
    /\ pc' = [pc EXCEPT ![Relay[r]] = "send"]
    /\ UNCHANGED <<event, chanClosed, chanLog, agentVars, storeVars,
                   runnerVars, envVars, restVars>>

\* A faulty relay: the event is persisted and then dropped, and the loop
\* takes the next one.
RelayPersistDropped(r) ==
    /\ pc[Relay[r]] = "persist"
    /\ AppendEvent(AppName, UserID[r], SessionID[r], event[Relay[r]])
    /\ NoteAppend(r, event[Relay[r]])
    /\ appendCalled' = [appendCalled EXCEPT
                           ![r] = Append(@, event[Relay[r]])]
    /\ pc' = [pc EXCEPT ![Relay[r]] = "recv"]
    /\ UNCHANGED <<event, chanClosed, chanLog, agentVars, newMessage,
                   session, eventsRead, result, envVars, restVars>>

\* The relay goroutine: r.SessionService.AppendEvent(..., event); the
\* result is ignored and the event goes on to `outputChan <- event`.
RelayPersist(r) ==
    /\ pc[Relay[r]] = "persist"
    /\ AppendEvent(AppName, UserID[r], SessionID[r], event[Relay[r]])
    /\ NoteAppend(r, event[Relay[r]])
    /\ appendCalled' = [appendCalled EXCEPT
                           ![r] = Append(@, event[Relay[r]])]
    /\ pc' = [pc EXCEPT ![Relay[r]] = "send"]
    /\ UNCHANGED <<event, chanClosed, chanLog, agentVars, newMessage,
                   session, eventsRead, result, envVars, restVars>>

\* The caller receives the event the relay sends on outputChan.
CallerRecv(r) ==
    /\ Handover(r, Relay[r], "recv")
    /\ UNCHANGED <<chanClosed, agentVars, storeVars, runnerVars, envVars,
                   restVars>>

\* The root's channel is closed: the range ends and the deferred
\* close(outputChan) runs.
RelayClose(r) ==
    /\ RangeEnds(Relay[r], Root[r])
    /\ pc' = [pc EXCEPT ![Relay[r]] = "done"]
    /\ chanClosed' = [chanClosed EXCEPT ![OutputChan[r]] = TRUE]
    /\ UNCHANGED <<event, chanLog, agentVars, storeVars, runnerVars, envVars,
                   restVars>>

\* The caller's range over the returned channel ends.
CallerDone(r) ==
    /\ RangeEnds(r, OutputChan[r])
    /\ pc' = [pc EXCEPT ![r] = "done"]
    /\ UNCHANGED <<event, chanClosed, chanLog, agentVars, storeVars,
                   runnerVars, envVars, restVars>>

\* ---------------------------------------------- other clients of the store

\* Another client's call touches the session of an invocation under way.
Disturb(userID, sessionID) ==
    disturbed' = [r \in Runners |->
                     \/ disturbed[r]
                     \/ /\ UserID[r] = userID
                        /\ SessionID[r] = sessionID
                        /\ pc[r] # "start"]

\* Another client calls DeleteSession.
EnvDeleteSession ==
    /\ envOps < MaxEnvOps
    /\ \E r \in Runners :
          /\ DeleteSession(AppName, UserID[r], SessionID[r])
          /\ Disturb(UserID[r], SessionID[r])
    /\ envOps' = envOps + 1
    /\ UNCHANGED <<pc, event, chanClosed, chanLog, agentVars, runnerVars,
                   foreign, restVars>>

\* The initialState arguments other clients give: nil, or one pair.
InitialStates == {NewState, Set(NewState, "k1", OldValues["k1"])}

\* Another client calls CreateSession.
EnvCreateSession ==
    /\ envOps < MaxEnvOps
    /\ \E r \in Runners :
          /\ \E initialState \in InitialStates :
                CreateSession(AppName, UserID[r], SessionID[r], initialState)
          /\ Disturb(UserID[r], SessionID[r])
    /\ envOps' = envOps + 1
    /\ UNCHANGED <<pc, event, chanClosed, chanLog, agentVars, runnerVars,
                   foreign, restVars>>

\* Another client calls AppendEvent with an event of its own.
EnvAppendEvent ==
    /\ envOps < MaxEnvOps
    /\ \E r \in Runners :
          AppendEvent(AppName, UserID[r], SessionID[r],
                      NewEvent("env", envOps + 1, "env", "x"))
    /\ envOps' = envOps + 1
    /\ foreign' = TRUE
    /\ UNCHANGED <<pc, event, chanClosed, chanLog, agentVars, runnerVars,
                   disturbed, restVars>>

\* getOrCreateSession has not called GetSession yet.
NotResolved == [how |-> "none", Events |-> <<>>, State |-> NewState]

\* No store call has returned yet; no FindAgent call has returned yet.
NoReply == [op |-> "none"]
NoFind == [op |-> "none"]

\* ------------------------------------------------- clients of one store

\* The names the clients of a store use: some contain the separator of
\* sessionKey, and a session ID can be empty.
StoreApps == {"a"}
StoreUsers == {"u", "u:x"}
Triples == {<<"a", "u", "s">>, <<"a", "u", "x:s">>, <<"a", "u:x", "s">>,
            <<"a", "u", "">>}

\* The key of a triple.
KeyOf(t) == sessionKey(t[1], t[2], t[3])

\* What a call returned: its name, its arguments, its value and its error.
Reply(op, args, value) ==
    [op |-> op, args |-> args, value |-> value, err |-> "nil"]

\* The events appended so far, in all sessions ever made.
RECURSIVE Appended(_)
Appended(i) == IF i = 0 THEN 0 ELSE Len(heap[i].Events) + Appended(i - 1)

\* The initialState a client gives CreateSession for a triple: a map with
\* one key for one of the triples, nil for the others.
InitialStateOf(t) ==
    IF t = <<"a", "u:x", "s">> THEN Set(NewState, "k1", OldValues["k1"])
    ELSE NewState

\* A client calls CreateSession.
StoreCreateSession ==
    /\ Len(heap) < MaxSessions
    /\ \E t \in Triples :
          /\ CreateSession(t[1], t[2], t[3], InitialStateOf(t))
          /\ live' = live \cup {KeyOf(t)}
          /\ reply' = Reply("CreateSession",
                            <<t[1], t[2], t[3], InitialStateOf(t)>>,
                            Len(heap) + 1)
    /\ UNCHANGED <<pc, event, chanClosed, chanLog, agentVars, runnerVars,
                   envVars, loopVars, llmVars, registryVars, taskVars,
                   resolved, ctxVars, treeVars, requestVars>>

\* A client calls GetSession.
StoreGetSession ==
    /\ \E t \in Triples :
          reply' = Reply("GetSession", t, GetSession(t[1], t[2], t[3]))
    /\ UNCHANGED <<pc, event, chanClosed, chanLog, agentVars, storeVars,
                   runnerVars, envVars, loopVars, llmVars, registryVars,
                   taskVars, resolved, live, ctxVars, treeVars, requestVars>>

\* A client calls DeleteSession.
StoreDeleteSession ==
    /\ \E t \in Triples :
          /\ DeleteSession(t[1], t[2], t[3])
          /\ live' = live \ {KeyOf(t)}
          /\ reply' = Reply("DeleteSession", t, 0)
    /\ UNCHANGED <<pc, event, chanClosed, chanLog, agentVars, runnerVars,
                   envVars, loopVars, llmVars, registryVars, taskVars,
                   resolved, ctxVars, treeVars, requestVars>>

\* A client calls ListSessions.
StoreListSessions ==
    /\ \E appName \in StoreApps, userID \in StoreUsers :
          reply' = Reply("ListSessions", <<appName, userID>>,
                         ListSessions(appName, userID))
    /\ UNCHANGED <<pc, event, chanClosed, chanLog, agentVars, storeVars,
                   runnerVars, envVars, loopVars, llmVars, registryVars,
                   taskVars, resolved, live, ctxVars, treeVars, requestVars>>

\* A client calls AppendEvent with a new event.
StoreAppendEvent ==
    /\ Appended(Len(heap)) < MaxAppends
    /\ \E t \in Triples :
          LET e == NewEvent("client", Appended(Len(heap)) + 1, "client", "x")
          IN  /\ AppendEvent(t[1], t[2], t[3], e)
              /\ reply' = Reply("AppendEvent", t, e)
    /\ UNCHANGED <<pc, event, chanClosed, chanLog, agentVars, runnerVars,
                   envVars, loopVars, llmVars, registryVars, taskVars,
                   resolved, live, ctxVars, treeVars, requestVars>>

\* A client calls ListEvents.
StoreListEvents ==
    /\ \E t \in Triples :
          reply' = Reply("ListEvents", t, ListEvents(t[1], t[2], t[3]))
    /\ UNCHANGED <<pc, event, chanClosed, chanLog, agentVars, storeVars,
                   runnerVars, envVars, loopVars, llmVars, registryVars,
                   taskVars, resolved, live, ctxVars, treeVars, requestVars>>

\* ------------------------------------------------------- the agent tree

\* The most AddSubAgent calls in one behaviour.
MaxAdds == 3

\* The agents a lookup starts from, and the names looked up.
FindRoots == {"n1", "n2"}
FindNames == {"a", "b", "zz"}

\* BaseAgent.AddSubAgent: the sub-agent goes to the end of the agent's
\* list and its parent becomes the agent.
AddSubAgent(a, subAgent) ==
    /\ subAgentsOf' = [subAgentsOf EXCEPT ![a] = Append(@, subAgent)]
    /\ ParentAgent' = [ParentAgent EXCEPT ![subAgent] = a]

\* BaseAgent.FindSubAgent: the first direct sub-agent of that name, or nil.
FindSubAgent(a, name) ==
    LET hits == {i \in 1..Len(subAgentsOf[a]) :
                    Name[subAgentsOf[a][i]] = name}
    IN  IF hits = {} THEN "nil"
        ELSE subAgentsOf[a][CHOOSE i \in hits : \A j \in hits : i <= j]

\* A faulty FindAgent: it looks at the agent and its direct sub-agents only.
FindAgentNearby(a, name) ==
    IF Name[a] = name THEN a ELSE FindSubAgent(a, name)

\* BaseAgent.FindAgent: the agent itself if it has the name, otherwise the
\* first non-nil result of the sub-agents' FindAgent, in the list's order.
RECURSIVE FindAgent(_, _)
RECURSIVE FindAmong(_, _)
FindAgent(a, name) ==
    IF Name[a] = name THEN a ELSE FindAmong(subAgentsOf[a], name)

\* The loop of FindAgent over the sub-agents.
FindAmong(subs, name) ==
    IF subs = <<>> THEN "nil"
    ELSE LET found == FindAgent(Head(subs), name)
         IN  IF found # "nil" THEN found ELSE FindAmong(Tail(subs), name)

\* The agents reached from a set of agents in at most k steps down.
RECURSIVE ReachIn(_, _)
ReachIn(S, k) ==
    IF k = 0 THEN S
    ELSE ReachIn(S \cup UNION {Range(subAgentsOf[n]) : n \in S}, k - 1)

\* No agent is below itself.
Acyclic ==
    \A n \in Nodes :
        n \notin ReachIn(Range(subAgentsOf[n]), Cardinality(Nodes))

\* Total number of entries in the children lists.
RECURSIVE Adds(_)
Adds(S) ==
    IF S = {} THEN 0
    ELSE LET n == CHOOSE x \in S : TRUE
         IN  Len(subAgentsOf[n]) + Adds(S \ {n})

\* Some code calls a.AddSubAgent(subAgent), directly or through a
\* constructor of a workflow agent; "n1" is never made a sub-agent.
TreeAddSubAgent ==
    /\ Adds(Nodes) < MaxAdds
    /\ \E a \in Nodes, subAgent \in Nodes \ {"n1"} :
          /\ subAgent # a
          /\ AddSubAgent(a, subAgent)
    /\ findResult' = NoFind
    /\ UNCHANGED <<pc, event, chanClosed, chanLog, agentVars, storeVars,
                   runnerVars, envVars, loopVars, llmVars, registryVars,
                   taskVars, sessionOpVars, ctxVars, requestVars>>

\* Some code calls a.FindAgent(name) on a tree.
TreeFindAgent ==
    /\ Acyclic
    /\ \E a \in FindRoots, name \in FindNames :
          findResult' = [op |-> "FindAgent", a |-> a, name |-> name,
                         value |-> FindAgent(a, name)]
    /\ UNCHANGED <<pc, event, chanClosed, chanLog, agentVars, storeVars,
                   runnerVars, envVars, loopVars, llmVars, registryVars,
                   taskVars, sessionOpVars, ctxVars, requestVars,
                   subAgentsOf, ParentAgent>>

\* Some code calls a.FindSubAgent(name).
TreeFindSubAgent ==
    /\ \E a \in FindRoots, name \in FindNames :
          findResult' = [op |-> "FindSubAgent", a |-> a, name |-> name,
                         value |-> FindSubAgent(a, name)]
    /\ UNCHANGED <<pc, event, chanClosed, chanLog, agentVars, storeVars,
                   runnerVars, envVars, loopVars, llmVars, registryVars,
                   taskVars, sessionOpVars, ctxVars, requestVars,
                   subAgentsOf, ParentAgent>>

\* The caller cancels the ctx it gave RunAsync while the run is in
\* progress.  No goroutine of the Runner or of an agent reads ctx, so no
\* other action depends on it.
Cancel ==
    /\ ~cancelled
    /\ \E r \in Runners : pc[Relay[r]] \notin {"idle", "done"}
    /\ cancelled' = TRUE
    /\ logAtCancel' = chanLog
    /\ UNCHANGED <<pc, event, chanClosed, chanLog, agentVars, storeVars,
                   runnerVars, envVars, loopVars, llmVars, registryVars,
                   taskVars, sessionOpVars, ctxEvents, treeVars,
                   requestVars>>

\* ---------------------------------------------------------- specifications


\* Nothing has run yet: the goroutines are at pc0, the channels are open
\* and empty, the registry is as init() leaves it.
Idle(pc0) ==
    /\ pc = pc0
    /\ event = [p \in Procs |-> NoEvent]
    /\ chanClosed = [c \in Chans |-> FALSE]
    /\ chanLog = [c \in Chans |-> <<>>]
    /\ idx = [a \in WorkflowAgents |-> 1]
    /\ wg = [a \in ParAgents |-> 0]
    /\ beforeCalled = [a \in Agents |-> 0]
    /\ afterCalled = [a \in Agents |-> 0]
    /\ session = [r \in Runners |-> 0]
    /\ eventsRead = [r \in Runners |-> <<>>]
    /\ result = [r \in Runners |-> "none"]
    /\ appendCalled = [r \in Runners |-> <<>>]
    /\ persistedBy = [r \in Runners |-> <<>>]
    /\ dropped = [r \in Runners |-> {}]
    /\ disturbed = [r \in Runners |-> FALSE]
    /\ foreign = FALSE
    /\ envOps = 0
    /\ iteration = [a \in LoopAgents |-> 0]
    /\ runLog = [a \in LoopAgents |-> <<>>]
    /\ checks = [a \in LoopAgents |-> <<>>]
    /\ beforeModelCalled = [a \in LlmAgents |-> 0]
    /\ afterModelCalled = [a \in LlmAgents |-> 0]
    /\ llm = [a \in LlmAgents |-> NilLLM]
    /\ respBuf = [a \in LlmAgents |-> <<>>]
    /\ genCalled = [a \in LlmAgents |-> 0]
    /\ stored = [a \in LlmAgents |-> <<>>]
    /\ models = {"gemini"}
    /\ instances = [n \in {} |-> NilLLM]
    /\ factoryCalls = [n \in ModelNames |-> 0]
    /\ stateMu = "free"
    /\ pending = {}
    /\ got = <<>>
    /\ local = [c \in Callers |-> NilLLM]
    /\ wordsLeft = [c \in Callers |-> {}]
    /\ returned = [c \in Callers |-> NotReturned]
    /\ resolved = [r \in Runners |-> NotResolved]
    /\ live = {}
    /\ reply = NoReply
    /\ cancelled = FALSE
    /\ logAtCancel = [c \in Chans |-> <<>>]
    /\ ctxEvents = [r \in Runners |-> <<>>]
    /\ subAgentsOf = [n \in Nodes |-> <<>>]
    /\ ParentAgent = [n \in Nodes |-> "nil"]
    /\ findResult = NoFind
    /\ contents = [a \in LlmAgents |-> <<>>]

\* The configuration of agents that are not run: no model callbacks, no
\* output key, and no calls to resolve.
Unconfigured ==
    /\ MaxIterations = [a \in LoopAgents |-> 0]
    /\ BeforeModelCallback = [a \in LlmAgents |-> "nil"]
    /\ AfterModelCallback = [a \in LlmAgents |-> "nil"]
    /\ Model = [a \in LlmAgents |-> "gemini-a"]
    /\ OutputKey = [a \in LlmAgents |-> ""]
    /\ request = [c \in Callers |-> "none"]
    /\ IncludeContents = [a \in LlmAgents |-> IncludeContentsDefault]
    /\ Instruction = [a \in LlmAgents |-> ""]

\* Nothing has run yet and the store is empty.
AtRest(pc0) ==
    /\ Idle(pc0)
    /\ Unconfigured
    /\ sessions = [k \in {} |-> 0]
    /\ heap = <<>>

\* A Runner over a new InMemorySessionService whose RunAsync has just been
\* called with some newMessage; other clients use the same store.
Init ==
    /\ AtRest([p \in Procs |-> IF p \in Solo THEN "start" ELSE "idle"])
    /\ \E m \in Messages :
          newMessage = [r \in Runners |-> IF r \in Solo THEN m
                                          ELSE NilContent]
    /\ BeforeAgentCallback = [a \in Agents |-> "nil"]
    /\ AfterAgentCallback = [a \in Agents |-> "nil"]

Next ==
    \/ \E r \in Runners :
          \/ RunnerGetSession(r)
          \/ RunnerCreateSession(r)
          \/ RunnerAddEventRead(r)
          \/ RunnerAddEventWrite(r)
          \/ RunnerAppendUser(r)
          \/ RunnerInvoke(r)
          \/ RelayRecv(r)
          \/ RelayPersist(r)
          \/ CallerRecv(r)
          \/ RelayClose(r)
          \/ CallerDone(r)
    \/ \E a \in Leaves : LeafEmit(a) \/ LeafClose(a)
    \/ EnvDeleteSession
    \/ EnvCreateSession
    \/ EnvAppendEvent
    \/ Cancel

Spec == Init /\ [][Next]_vars

\* The callbacks an agent can be given: none, one that returns nil, one
\* that returns an error.
Callbacks == {"nil", "ok", "err"}

\* Where the goroutines are when RunAsync of the agents in `roots` has just
\* been called and a consumer ranges over each returned channel.
Alone(roots) ==
    [p \in Procs |-> IF p \in roots THEN "start"
                     ELSE IF p \in {Harness[a] : a \in roots} THEN "recv"
                     ELSE "idle"]

\* RunAsync of the workflow agents in `roots` has just been called, each
\* with some callbacks.
InitAgents(roots) ==
    /\ AtRest(Alone(roots))
    /\ newMessage = [r \in Runners |-> NilContent]
    /\ \E before \in [roots -> Callbacks], after \in [roots -> Callbacks] :
          /\ BeforeAgentCallback =
                [a \in Agents |-> IF a \in roots THEN before[a] ELSE "nil"]
          /\ AfterAgentCallback =
                [a \in Agents |-> IF a \in roots THEN after[a] ELSE "nil"]

\* A SequentialAgent of two leaves, run on its own.
InitSeq == InitAgents({"seq"})

NextSeq ==
    \/ \E a \in SeqAgents :
          \/ SeqBefore(a)
          \/ SeqStartChild(a)
          \/ SeqForward(a)
          \/ SeqChildDone(a)
          \/ SeqAfter(a)
          \/ SeqClose(a)
          \/ HarnessRecv(a)
          \/ HarnessDone(a)
    \/ \E c \in Leaves : LeafEmit(c) \/ LeafClose(c)

SpecSeq == InitSeq /\ [][NextSeq]_vars

\* A ParallelAgent of two leaves, run on its own.
InitPar == InitAgents(ParAgents)

NextPar ==
    \/ \E a \in ParAgents :
          \/ ParBefore(a)
          \/ ParSpawn(a)
          \/ ParWait(a)
          \/ ParAfter(a)
          \/ ParClose(a)
          \/ HarnessRecv(a)
          \/ HarnessDone(a)
    \/ \E c \in DOMAIN Forwarder :
          \/ ForwarderRunAsync(c)
          \/ ParForward(c)
          \/ ForwarderDone(c)
    \/ \E c \in Leaves : LeafEmit(c) \/ LeafClose(c)

SpecPar == InitPar /\ [][NextPar]_vars

\* The store holds one session, created with the given initial state; the
\* InvocationContext of the agent run was copied from it.
StoredSession(initialState) ==
    /\ heap = <<NewSession(AppName, UserID["r1"], SessionID["r1"],
                           initialState)>>
    /\ sessions = [k \in {sessionKey(AppName, UserID["r1"], SessionID["r1"])}
                      |-> CtxSession]

\* A LoopAgent of two leaves, run on its own with some MaxIterations, some
\* callbacks and a session.
InitLoop ==
    /\ Idle(Alone(LoopAgents))
    /\ StoredSession(NewState)
    /\ newMessage = [r \in Runners |-> NilContent]
    /\ MaxIterations \in [LoopAgents -> -1..MaxIterationsCap]
    /\ \E before \in Callbacks, after \in Callbacks :
          /\ BeforeAgentCallback =
                [a \in Agents |-> IF a \in LoopAgents THEN before ELSE "nil"]
          /\ AfterAgentCallback =
                [a \in Agents |-> IF a \in LoopAgents THEN after ELSE "nil"]
    /\ BeforeModelCallback = [a \in LlmAgents |-> "nil"]
    /\ AfterModelCallback = [a \in LlmAgents |-> "nil"]
    /\ Model = [a \in LlmAgents |-> "gemini-a"]
    /\ OutputKey = [a \in LlmAgents |-> ""]
    /\ IncludeContents = [a \in LlmAgents |-> IncludeContentsDefault]
    /\ Instruction = [a \in LlmAgents |-> ""]
    /\ request = [c \in Callers |-> "none"]

NextLoop ==
    \/ \E a \in LoopAgents :
          \/ LoopBefore(a)
          \/ LoopIteration(a)
          \/ LoopStartChild(a)
          \/ LoopForward(a)
          \/ LoopCheckEvent(a)
          \/ LoopChildDone(a)
          \/ LoopPassDone(a)
          \/ LoopAfter(a)
          \/ LoopClose(a)
          \/ HarnessRecv(a)
          \/ HarnessDone(a)
          \/ \E c \in Range(SubAgents[a]) :
                LeafEmit(c) \/ LeafEmitExit(c) \/ LeafClose(c)
    \/ StateSetExitLoop

SpecLoop == InitLoop /\ [][NextLoop]_vars

\* The goroutines of a LoopAgent's run are scheduled: the LoopAgent's own,
\* the one of each sub-agent, and the caller that drains the stream each
\* take their next step when it stays possible.
FairLoop ==
    \A a \in LoopAgents :
        /\ WF_vars(\/ LoopBefore(a)
                   \/ LoopIteration(a)
                   \/ LoopStartChild(a)
                   \/ LoopForward(a)
                   \/ LoopCheckEvent(a)
                   \/ LoopChildDone(a)
                   \/ LoopPassDone(a)
                   \/ LoopAfter(a)
                   \/ LoopClose(a))
        /\ WF_vars(HarnessRecv(a) \/ HarnessDone(a))
        /\ \A c \in Range(SubAgents[a]) :
              WF_vars(LeafEmit(c) \/ LeafEmitExit(c) \/ LeafClose(c))

SpecLoopFair == SpecLoop /\ FairLoop

\* The output keys an LlmAgent is given: none, or a key.
OutputKeys == {"", "answer"}

\* An LlmAgent run on its own with some callbacks, model name and output
\* key; or the same agent, without callbacks, as the first sub-agent of a
\* SequentialAgent.
InitLlm ==
    /\ \E root \in {"llm", "seqL"} :
          /\ Idle(Alone({root}))
          /\ \E before \in Callbacks, after \in Callbacks :
                /\ root = "seqL" => before = "nil" /\ after = "nil"
                /\ BeforeAgentCallback =
                      [a \in Agents |-> IF a \in LlmAgents THEN before
                                        ELSE "nil"]
                /\ AfterAgentCallback =
                      [a \in Agents |-> IF a \in LlmAgents THEN after
                                        ELSE "nil"]
          /\ BeforeModelCallback \in [LlmAgents -> Callbacks]
          /\ AfterModelCallback \in [LlmAgents -> Callbacks]
          /\ root = "seqL" =>
                /\ BeforeModelCallback = [a \in LlmAgents |-> "nil"]
                /\ AfterModelCallback = [a \in LlmAgents |-> "nil"]
    /\ StoredSession(NewState)
    /\ newMessage = [r \in Runners |-> NilContent]
    /\ MaxIterations = [a \in LoopAgents |-> 0]
    /\ Model \in [LlmAgents -> {"gemini-a", "gpt-x"}]
    /\ OutputKey \in [LlmAgents -> OutputKeys]
    /\ IncludeContents = [a \in LlmAgents |-> IncludeContentsDefault]
    /\ Instruction = [a \in LlmAgents |-> ""]
    /\ request = [c \in Callers |-> "none"]

NextLlm ==
    \/ \E a \in LlmAgents :
          \/ LlmBefore(a)
          \/ LlmBeforeModel(a)
          \/ LlmResolve(a)
          \/ LlmGenerate(a)
          \/ BackendEmit(a)
          \/ BackendClose(a)
          \/ LlmProcess(a)
          \/ LlmAfterModel(a)
          \/ LlmAfter(a)
          \/ LlmClose(a)
          \/ HarnessRecv(a)
          \/ HarnessDone(a)
    \/ \E a \in SeqAgents :
          \/ SeqBefore(a)
          \/ SeqStartChild(a)
          \/ SeqForward(a)
          \/ SeqChildDone(a)
          \/ SeqAfter(a)
          \/ SeqClose(a)
          \/ HarnessRecv(a)
          \/ HarnessDone(a)
          \/ \E c \in Range(SubAgents[a]) \cap Leaves :
                LeafEmit(c) \/ LeafClose(c)

SpecLlm == InitLlm /\ [][NextLlm]_vars

\* A Runner over a leaf, with no other client of the store.
NextRun ==
    \E r \in Solo :
        \/ RunnerGetSession(r)
        \/ RunnerCreateSession(r)
        \/ RunnerAddEventRead(r)
        \/ RunnerAddEventWrite(r)
        \/ RunnerAppendUser(r)
        \/ RunnerInvoke(r)
        \/ RelayRecv(r)
        \/ RelayPersist(r)
        \/ CallerRecv(r)
        \/ RelayClose(r)
        \/ CallerDone(r)
        \/ LeafEmit(Root[r])
        \/ LeafClose(Root[r])

\* Any one of the four agents run on its own, or a Runner over a leaf.
InitAgent == InitSeq \/ InitPar \/ InitLoop \/ InitLlm \/ Init

NextAgent == NextSeq \/ NextPar \/ NextLoop \/ NextLlm \/ NextRun

SpecAgent == InitAgent /\ [][NextAgent]_vars


\* Two Runner.RunAsync calls for one session key on one store, which is
\* new or holds the session already; the invocations run at the same time.
InitTwo ==
    /\ Idle([p \in Procs |-> IF p \in Pair THEN "start" ELSE "idle"])
    /\ Unconfigured
    /\ \/ sessions = [k \in {} |-> 0] /\ heap = <<>>
       \/ StoredSession(NewState)
    /\ \E m \in [Pair -> Messages] :
          newMessage = [r \in Runners |-> IF r \in Pair THEN m[r]
                                          ELSE NilContent]
    /\ BeforeAgentCallback = [a \in Agents |-> "nil"]
    /\ AfterAgentCallback = [a \in Agents |-> "nil"]

NextTwo ==
    \E r \in Pair :
        \/ RunnerGetSession(r)
        \/ RunnerCreateSession(r)
        \/ RunnerAddEventRead(r)
        \/ RunnerAddEventWrite(r)
        \/ RunnerAppendUser(r)
        \/ RunnerInvoke(r)
        \/ RelayRecv(r)
        \/ RelayPersist(r)
        \/ CallerRecv(r)
        \/ RelayClose(r)
        \/ CallerDone(r)
        \/ LeafEmit(Root[r])
        \/ LeafClose(Root[r])

SpecTwo == InitTwo /\ [][NextTwo]_vars

\* Clients of a new InMemorySessionService make calls one after another.
InitStore ==
    /\ AtRest([p \in Procs |-> "idle"])
    /\ newMessage = [r \in Runners |-> NilContent]
    /\ BeforeAgentCallback = [a \in Agents |-> "nil"]
    /\ AfterAgentCallback = [a \in Agents |-> "nil"]

NextStore ==
    \/ StoreCreateSession
    \/ StoreGetSession
    \/ StoreDeleteSession
    \/ StoreListSessions
    \/ StoreAppendEvent
    \/ StoreListEvents

SpecStore == InitStore /\ [][NextStore]_vars

\* Agents are put together into a tree and looked up by name.
InitTree ==
    /\ AtRest([p \in Procs |-> "idle"])
    /\ newMessage = [r \in Runners |-> NilContent]
    /\ BeforeAgentCallback = [a \in Agents |-> "nil"]
    /\ AfterAgentCallback = [a \in Agents |-> "nil"]

NextTree ==
    \/ TreeAddSubAgent
    \/ TreeFindAgent
    \/ TreeFindSubAgent

SpecTree == InitTree /\ [][NextTree]_vars

\* The instructions an LlmAgent can have.
Instructions == {"", "be brief"}

\* A Runner over a new InMemorySessionService whose root agent is a
\* SequentialAgent of a leaf and the LlmAgent; RunAsync has just been
\* called.
InitHistory ==
    /\ Idle([p \in Procs |-> IF p = "r2" THEN "start" ELSE "idle"])
    /\ sessions = [k \in {} |-> 0]
    /\ heap = <<>>
    /\ \E m \in Messages :
          newMessage = [r \in Runners |-> IF r = "r2" THEN m ELSE NilContent]
    /\ BeforeAgentCallback = [a \in Agents |-> "nil"]
    /\ AfterAgentCallback = [a \in Agents |-> "nil"]
    /\ MaxIterations = [a \in LoopAgents |-> 0]
    /\ BeforeModelCallback = [a \in LlmAgents |-> "nil"]
    /\ AfterModelCallback = [a \in LlmAgents |-> "nil"]
    /\ Model = [a \in LlmAgents |-> "gemini-a"]
    /\ OutputKey = [a \in LlmAgents |-> ""]
    /\ request = [c \in Callers |-> "none"]
    /\ IncludeContents \in
          [LlmAgents -> {IncludeContentsDefault, IncludeContentsNone}]
    /\ Instruction \in [LlmAgents -> Instructions]

NextHistory ==
    \/ RunnerGetSession("r2")
    \/ RunnerCreateSession("r2")
    \/ RunnerAddEventRead("r2")
    \/ RunnerAddEventWrite("r2")
    \/ RunnerAppendUser("r2")
    \/ RunnerInvoke("r2")
    \/ RelayRecv("r2")
    \/ RelayPersist("r2")
    \/ CallerRecv("r2")
    \/ RelayClose("r2")
    \/ CallerDone("r2")
    \/ SeqBefore("seqH")
    \/ SeqStartChild("seqH")
    \/ SeqForward("seqH")
    \/ SeqChildDone("seqH")
    \/ SeqAfter("seqH")
    \/ SeqClose("seqH")
    \/ LeafEmit("h1")
    \/ LeafClose("h1")
    \/ \E a \in LlmAgents :
          \/ LlmBefore(a)
          \/ LlmBeforeModel(a)
          \/ LlmResolve(a)
          \/ LlmGenerate(a)
          \/ BackendEmit(a)
          \/ BackendClose(a)
          \/ LlmProcess(a)
          \/ LlmAfterModel(a)
          \/ LlmAfter(a)
          \/ LlmClose(a)

SpecHistory == InitHistory /\ [][NextHistory]_vars

\* The maps a State can hold before the bulk update: an old value under
\* some of the keys.
OldStates ==
    {[k \in ks |-> OldValues[k]] : ks \in SUBSET Keys}

\* One task is about to call State.Update with the pairs of Updates while
\* its sibling is about to call State.Get on each key.
InitState ==
    /\ Idle([p \in Procs |-> IF p = "upd" THEN "update"
                             ELSE IF p = "sib" THEN "get" ELSE "idle"])
    /\ Unconfigured
    /\ \E old \in OldStates : StoredSession(old)
    /\ newMessage = [r \in Runners |-> NilContent]
    /\ BeforeAgentCallback = [a \in Agents |-> "nil"]
    /\ AfterAgentCallback = [a \in Agents |-> "nil"]

NextState ==
    \/ UpdateLock("upd")
    \/ UpdateWrite("upd")
    \/ UpdateUnlock("upd")
    \/ SiblingGet("sib")

SpecState == InitState /\ [][NextState]_vars

\* Two goroutines are each about to resolve a model, by name through
\* models.NewLLM or through GetCanonicalModel of the same LlmAgent.
InitRegistry ==
    /\ Idle([p \in Procs |-> IF p \in Callers THEN "call" ELSE "idle"])
    /\ sessions = [k \in {} |-> 0]
    /\ heap = <<>>
    /\ newMessage = [r \in Runners |-> NilContent]
    /\ BeforeAgentCallback = [a \in Agents |-> "nil"]
    /\ AfterAgentCallback = [a \in Agents |-> "nil"]
    /\ MaxIterations = [a \in LoopAgents |-> 0]
    /\ BeforeModelCallback = [a \in LlmAgents |-> "nil"]
    /\ AfterModelCallback = [a \in LlmAgents |-> "nil"]
    /\ OutputKey = [a \in LlmAgents |-> ""]
    /\ IncludeContents = [a \in LlmAgents |-> IncludeContentsDefault]
    /\ Instruction = [a \in LlmAgents |-> ""]
    /\ Model \in [LlmAgents -> ModelNames]
    /\ request \in [Callers -> ModelNames \cup {"GetCanonicalModel"}]

NextRegistry ==
    \/ \E c \in Callers :
          \/ CallNewLLM(c)
          \/ GcmCheck(c)
          \/ GcmResolve(c)
          \/ GcmWrite(c)
          \/ GcmReturn(c)
    \/ RegisterFactory

SpecRegistry == InitRegistry /\ [][NextRegistry]_vars

\* ------------------------------------------------------ sequence helpers

IsPrefix(s, t) == Len(s) <= Len(t) /\ SubSeq(t, 1, Len(s)) = s

\* The events of s whose author is in the set authors, in order.
RECURSIVE ByAuthor(_, _)
ByAuthor(s, authors) ==
    IF s = <<>> THEN <<>>
    ELSE (IF Head(s).author \in authors THEN <<Head(s)>> ELSE <<>>)
             \o ByAuthor(Tail(s), authors)

\* s occurs in t as a subsequence: every element, in the same order.
RECURSIVE IsSubsequence(_, _)
IsSubsequence(s, t) ==
    IF s = <<>> THEN TRUE
    ELSE IF t = <<>> THEN FALSE
    ELSE IF Head(s) = Head(t) THEN IsSubsequence(Tail(s), Tail(t))
    ELSE IsSubsequence(s, Tail(t))

\* What the caller of invocation r has received, what its root agent has
\* emitted, and what the store lists for its session.
Delivered(r) == chanLog[OutputChan[r]]
Emitted(r) == chanLog[Root[r]]
Persisted(r) == ListEvents(AppName, UserID[r], SessionID[r])

\* ------------------------------------------------------------- the Runner

\* C1: every event the Runner sends on the output channel has had its
\* AppendEvent call return first: what the caller has received is a prefix
\* of the root events AppendEvent was called for, and an event the relay is
\* sending is the last of those.
C1_PersistBeforeRelay ==
    \A r \in Runners :
        /\ IsPrefix(Delivered(r), appendCalled[r])
        /\ pc[Relay[r]] = "send" =>
              /\ appendCalled[r] # <<>>
              /\ event[Relay[r]] = appendCalled[r][Len(appendCalled[r])]

\* C1's case: an event is persisted and not yet delivered, after an earlier
\* one was delivered.
C1_Witness ==
    \E r \in Runners :
        /\ Len(Delivered(r)) >= 1
        /\ Len(appendCalled[r]) > Len(Delivered(r))

C3_NeverObserveUnpersisted ==
    \A r \in Runners :
        \A i \in 1..Len(Delivered(r)) : Delivered(r)[i].id \notin dropped[r]

\* C4, as claimed: with a non-nil newMessage, the first event the invocation
\* persists and the first event the caller observes both have author "user"
\* and content newMessage.
C4_FirstPersistedAndObservedIsUser ==
    \A r \in Runners :
        newMessage[r] # NilContent =>
            /\ persistedBy[r] # <<>> =>
                  /\ persistedBy[r][1].author = "user"
                  /\ persistedBy[r][1].content = newMessage[r]
            /\ Delivered(r) # <<>> =>
                  /\ Delivered(r)[1].author = "user"
                  /\ Delivered(r)[1].content = newMessage[r]

\* C4, amended: with a non-nil newMessage, the first event the invocation
\* persists has author "user" and content newMessage, and it is persisted
\* before the root agent is invoked; the user event is not sent on the
\* returned stream, whose first event is the root agent's first event.
C4_FirstPersistedIsUser ==
    \A r \in Runners :
        newMessage[r] # NilContent =>
            /\ persistedBy[r] # <<>> =>
                  /\ persistedBy[r][1].author = "user"
                  /\ persistedBy[r][1].content = newMessage[r]
            /\ pc[Root[r]] # "idle" => persistedBy[r] # <<>>
            /\ \A i \in 1..Len(Delivered(r)) :
                  Delivered(r)[i].id # UserEvent(r).id
            /\ Delivered(r) # <<>> => Delivered(r)[1] = Emitted(r)[1]

\* C4's case: a message was given and the caller has observed an event.
C4_Witness ==
    \E r \in Runners :
        /\ newMessage[r] # NilContent
        /\ persistedBy[r] # <<>>
        /\ Delivered(r) # <<>>

\* C5, as claimed: after a run with a message on a fresh session that no
\* one else touches, the persisted list is the user event once, followed by
\* the root agent's events in emission order.
C5_FreshSessionHoldsUserThenEmitted ==
    \A r \in Runners :
        (/\ chanClosed[OutputChan[r]]
         /\ newMessage[r] # NilContent
         /\ ~disturbed[r]
         /\ ~foreign) =>
            Persisted(r) = <<UserEvent(r)>> \o Emitted(r)

\* C6: the caller receives the root agent's events in order, none lost,
\* duplicated or reordered; once the stream is closed it has received all.
C6_DeliveredIsEmitted ==
    \A r \in Runners :
        /\ IsPrefix(Delivered(r), Emitted(r))
        /\ chanClosed[OutputChan[r]] => Delivered(r) = Emitted(r)

\* C6's case: a drained, closed stream of two events.
C6_Witness ==
    \E r \in Runners :
        /\ pc[r] = "done"
        /\ result[r] = "chan"
        /\ Len(Emitted(r)) >= 2

\* ------------------------------------------------------- SequentialAgent

\* The event streams of the sub-agents in kids, one after the other.
RECURSIVE Concatenation(_)
Concatenation(kids) ==
    IF kids = <<>> THEN <<>>
    ELSE chanLog[Head(kids)] \o Concatenation(Tail(kids))

\* The events of sub-agent c that agent a has sent on its own channel.
Forwarded(a, c) == ByAuthor(chanLog[a], {c})

\* The sub-agent's RunAsync has been called and its stream is over: it
\* returned an error, or its channel is closed.
Finished(c) == pc[c] \in {"error", "done"}

\* The sub-agent failed: RunAsync returned an error, or its stream closed
\* after zero events.
Failed(c) == pc[c] = "error" \/ (pc[c] = "done" /\ chanLog[c] = <<>>)

NoFailingCallback(a) ==
    BeforeAgentCallback[a] # "err" /\ AfterAgentCallback[a] # "err"

\* C7: with no failing callback, what a SequentialAgent has sent is a
\* prefix of the concatenation of its sub-agents' streams in list order,
\* and all of it once its channel is closed; a sub-agent is started only
\* when every earlier one is finished and fully forwarded.
C7_SequentialIsConcatenation ==
    \A a \in SeqAgents :
        NoFailingCallback(a) =>
            /\ IsPrefix(chanLog[a], Concatenation(SubAgents[a]))
            /\ chanClosed[a] => chanLog[a] = Concatenation(SubAgents[a])
            /\ \A i, j \in 1..Len(SubAgents[a]) :
                  (i < j /\ pc[SubAgents[a][j]] # "idle") =>
                      /\ Finished(SubAgents[a][i])
                      /\ Forwarded(a, SubAgents[a][i])
                            = chanLog[SubAgents[a][i]]

\* C7's case: a closed stream to which both sub-agents contributed.
C7_Witness ==
    \E a \in SeqAgents :
        /\ NoFailingCallback(a)
        /\ chanClosed[a]
        /\ \A i \in 1..Len(SubAgents[a]) : Len(chanLog[SubAgents[a][i]]) >= 2

\* C8: when a SequentialAgent's stream is closed, every sub-agent listed
\* after a failed one has been started and all its events were forwarded.
C8_FailingChildDoesNotHalt ==
    \A a \in SeqAgents :
        chanClosed[a] =>
            \A i, j \in 1..Len(SubAgents[a]) :
                (i < j /\ Failed(SubAgents[a][i])) =>
                    /\ Finished(SubAgents[a][j])
                    /\ Forwarded(a, SubAgents[a][j])
                          = chanLog[SubAgents[a][j]]

\* C8's case: the first sub-agent's RunAsync returned an error and a later
\* one's events were forwarded.
C8_Witness ==
    \E a \in SeqAgents :
        /\ chanClosed[a]
        /\ pc[SubAgents[a][1]] = "error"
        /\ Forwarded(a, SubAgents[a][2]) # <<>>

\* --------------------------------------------------------- ParallelAgent

\* C9: on a ParallelAgent's channel every event comes from a sub-agent, no
\* event comes twice, and each sub-agent's events come in the order it
\* emitted them; once the channel is closed, every event of every
\* sub-agent has come.
C9_ParallelIsUnionInChildOrder ==
    \A a \in ParAgents :
        /\ ByAuthor(chanLog[a], Range(SubAgents[a])) = chanLog[a]
        /\ \A i, j \in 1..Len(chanLog[a]) :
              i # j => chanLog[a][i].id # chanLog[a][j].id
        /\ \A c \in Range(SubAgents[a]) :
              /\ IsPrefix(Forwarded(a, c), chanLog[c])
              /\ chanClosed[a] => Forwarded(a, c) = chanLog[c]

\* C9's case: a closed stream in which the second sub-agent's first event
\* came before the first sub-agent's, each having emitted two.
C9_Witness ==
    \E a \in ParAgents :
        /\ chanClosed[a]
        /\ \A c \in Range(SubAgents[a]) : Len(chanLog[c]) >= 2
        /\ chanLog[a][1].author = SubAgents[a][2]
        /\ chanLog[a][2].author = SubAgents[a][1]

\* C10: when a ParallelAgent has invoked its after-agent callback or closed
\* its channel, no sub-agent's stream is still open, no forwarding
\* goroutine is still running, and every event of every sub-agent has been
\* forwarded; unless the before-agent callback failed, every forwarding
\* goroutine has run to its end.
C10_ParallelJoinsBeforeClose ==
    \A a \in ParAgents :
        (chanClosed[a] \/ afterCalled[a] > 0) =>
            \A c \in Range(SubAgents[a]) :
                /\ pc[c] \in {"idle", "error", "done"}
                /\ pc[Forwarder[c]] \in {"idle", "done"}
                /\ Forwarded(a, c) = chanLog[c]
                /\ BeforeAgentCallback[a] # "err" =>
                      pc[Forwarder[c]] = "done"

\* C10's case: the after-agent callback has been invoked, the channel is
\* not yet closed, and both sub-agents had events.
C10_Witness ==
    \E a \in ParAgents :
        /\ afterCalled[a] > 0
        /\ ~chanClosed[a]
        /\ \A c \in Range(SubAgents[a]) : chanLog[c] # <<>>

\* ------------------------------------------------------------- LoopAgent

\* The RunAsync calls of passes i, i + 1, ... of a LoopAgent up to its cap:
\* in each pass every sub-agent once, in list order.
RECURSIVE Passes(_, _)
Passes(a, i) ==
    IF i >= MaxIterations[a] THEN <<>>
    ELSE [j \in 1..Len(SubAgents[a]) |-> <<i, SubAgents[a][j]>>]
             \o Passes(a, i + 1)

\* No exit signal showed: no iteration found exit_loop = true in the State
\* and no event sent asked for the exit.
NoExitSignal(a) ==
    /\ \A i \in 1..Len(checks[a]) : checks[a][i] # <<Bool(TRUE), TRUE>>
    /\ \A i \in 1..Len(chanLog[a]) : ~chanLog[a][i].SkipSummarization

C12_ExitFlagStopsIteration ==
    \A a \in LoopAgents :
        \A i \in 1..Len(checks[a]) :
            IF checks[a][i] = <<Bool(TRUE), TRUE>>
            THEN /\ i = Len(checks[a])
                 /\ pc[a] \in {"after", "closing", "done"}
                 /\ \A j \in 1..Len(runLog[a]) : runLog[a][j][1] < i - 1
            ELSE \/ \E j \in 1..Len(runLog[a]) :
                       runLog[a][j] = <<i - 1, SubAgents[a][1]>>
                 \/ /\ i = Len(checks[a])
                    /\ pc[a] = "next"
                    /\ idx[a] = 1

\* C12's case: the first iteration found a string under the key and ran,
\* the second found true and the stream was closed.
C12_Witness ==
    \E a \in LoopAgents :
        /\ chanClosed[a]
        /\ Len(checks[a]) = 2
        /\ checks[a][1] = <<Str("true"), TRUE>>
        /\ checks[a][2] = <<Bool(TRUE), TRUE>>
        /\ Len(runLog[a]) = Len(SubAgents[a])

\* C13: an event that asks for the exit is the last one on a LoopAgent's
\* channel; once it is sent the loop only looks at it, invokes the
\* after-agent callback and closes: the last RunAsync call stays the one of
\* the sub-agent that emitted it, in the iteration it was emitted in.
C13_ExitEventEndsLoop ==
    \A a \in LoopAgents :
        \A i \in 1..Len(chanLog[a]) :
            chanLog[a][i].SkipSummarization =>
                /\ i = Len(chanLog[a])
                /\ pc[a] \in {"check", "after", "closing", "done"}
                /\ runLog[a][Len(runLog[a])]
                      = <<iteration[a], chanLog[a][i].author>>
                /\ (pc[a] \in {"closing", "done"}
                    /\ AfterAgentCallback[a] # "nil") => afterCalled[a] = 1
                /\ pc[a] = "done" => chanClosed[a]

\* C13's case: the first sub-agent's first event asked for the exit in the
\* first of two iterations; the stream is closed, the second sub-agent was
\* never run and the first is left blocked on its next send.
C13_Witness ==
    \E a \in LoopAgents :
        /\ chanClosed[a]
        /\ MaxIterations[a] = 2
        /\ Len(chanLog[a]) = 1
        /\ chanLog[a][1].SkipSummarization
        /\ pc[SubAgents[a][2]] = "idle"
        /\ pc[SubAgents[a][1]] = "send"

\* ------------------------------------------------------------------ State

\* A Get result <<key, <<value, exists>>>> that shows the bulk update's
\* value for its key; any other result shows the value from before it.
ShowsUpdate(g) == g[2] = <<Updates[g[1]], TRUE>>

\* C14, as claimed: the sibling's Get results never show one key updated
\* and another not.
C14_NeverOneUpdatedOneNot ==
    \A i, j \in 1..Len(got) : ShowsUpdate(got[i]) <=> ShowsUpdate(got[j])

\* C14, amended: Update applies its pairs in one critical section: whenever
\* the lock is free the map holds all of the update or none of it, so once
\* a Get of the sibling has shown an updated value every later Get of it
\* does.  (A Get made before the Update took the lock and one made after
\* show the old value of one key and the new value of the other.)
C14_UpdateIsOneCriticalSection ==
    /\ stateMu = "free" =>
          \/ \A k \in Keys : Get(CtxState, k) = <<Updates[k], TRUE>>
          \/ \A k \in Keys : Get(CtxState, k) # <<Updates[k], TRUE>>
    /\ \A i, j \in 1..Len(got) :
          (i < j /\ ShowsUpdate(got[i])) => ShowsUpdate(got[j])

\* C14's case: the sibling read one key before the Update took the lock and
\* the other after the Update released it.
C14_Witness ==
    /\ Len(got) = 2
    /\ ~ShowsUpdate(got[1])
    /\ ShowsUpdate(got[2])
    /\ pc["upd"] = "done"

\* ----------------------------------------------------------- model cache

\* The model identifier a caller resolves.
ResolvedName(c) ==
    IF request[c] = "GetCanonicalModel" THEN Model[SharedAgent]
    ELSE request[c]

\* C15: callers that resolved the same model identifier, through NewLLM or
\* through GetCanonicalModel on the shared agent, were returned the
\* identical instance, and the factory ran at most once for each identifier.
C15_SameInstanceOneFactoryCall ==
    /\ \A c, d \in Callers :
          (/\ returned[c] # NotReturned
           /\ returned[d] # NotReturned
           /\ ResolvedName(c) = ResolvedName(d))
          => returned[c] = returned[d]
    /\ \A n \in ModelNames : factoryCalls[n] <= 1

\* --------------------------------------------------------------- LlmAgent

\* The final responses with a Part among the events of a sequence.
FinalWithParts(s) ==
    SelectSeq(s, LAMBDA e : e.IsFinalResponse /\ HasParts(e.content))

\* The events an LlmAgent has taken from its backend's response channel.
Taken(a) ==
    SubSeq(chanLog[Backend[a]], 1,
           Len(chanLog[Backend[a]]) - Len(respBuf[a]))

\* What the State holds under an output key after the events of s went
\* through the agent: the Text of the first Part of the last final
\* response with a Part, or nothing.
OutputOf(s) ==
    IF FinalWithParts(s) = <<>> THEN <<Nil, FALSE>>
    ELSE <<Str(FinalWithParts(s)[Len(FinalWithParts(s))].content), TRUE>>

\* C16: for an LlmAgent with an output key k, the State of the stored
\* session holds under k the text of the final response with a Part the
\* agent took last, and nothing when it took none: an event that is not a
\* final response writes nothing.  Once the agent's channel is closed the
\* events it took are the events it forwarded.  Without an output key the
\* agent writes nothing.
C16_OutputKeyHoldsFinalText ==
    \A a \in LlmAgents :
        /\ chanClosed[a] => chanLog[a] = Taken(a)
        /\ IF OutputKey[a] # ""
           THEN /\ Get(heap[sessions[sessionKey(AppName, "u", "s")]].State,
                       OutputKey[a]) = OutputOf(Taken(a))
                /\ DOMAIN CtxState \subseteq {OutputKey[a]}
           ELSE DOMAIN CtxState = {}

\* C16's case: the agent forwarded a final response with a Part and then an
\* event with a Part that is not final, its channel is closed, and the
\* State holds the first one's text.
C16_Witness ==
    \E a \in LlmAgents :
        /\ chanClosed[a]
        /\ OutputKey[a] # ""
        /\ Len(chanLog[a]) = 2
        /\ chanLog[a][1].IsFinalResponse /\ HasParts(chanLog[a][1].content)
        /\ ~chanLog[a][2].IsFinalResponse /\ HasParts(chanLog[a][2].content)
        /\ Get(CtxState, OutputKey[a]) = <<Str(chanLog[a][1].content), TRUE>>

\* C17, as claimed: an event whose text was written under the output key
\* has already been forwarded on the agent's channel.
C17_WriteAfterForward ==
    \A a \in LlmAgents : Range(stored[a]) \subseteq Range(chanLog[a])

\* C17, amended: the write comes before the forward.  Every final response
\* with a Part that was forwarded had been written, and while the agent is
\* blocked sending one, its text is already in the State and the event is
\* not yet on the channel.
C17_WriteBeforeForward ==
    \A a \in LlmAgents :
        OutputKey[a] # "" =>
            /\ IsPrefix(FinalWithParts(chanLog[a]), stored[a])
            /\ (/\ pc[a] = "send"
                /\ event[a].IsFinalResponse
                /\ HasParts(event[a].content))
               => /\ Get(CtxState, OutputKey[a])
                        = <<Str(event[a].content), TRUE>>
                  /\ stored[a] = Append(FinalWithParts(chanLog[a]), event[a])
                  /\ event[a] \notin Range(chanLog[a])

\* C17's case: the agent is about to forward its first event, a final
\* response with a Part, and the State already holds its text.
C17_Witness ==
    \E a \in LlmAgents :
        /\ OutputKey[a] # ""
        /\ pc[a] = "send"
        /\ chanLog[a] = <<>>
        /\ event[a].IsFinalResponse
        /\ HasParts(event[a].content)
        /\ Get(CtxState, OutputKey[a]) = <<Str(event[a].content), TRUE>>

\* An LlmAgent whose model NewLLM cannot make: the name is unsupported or
\* its type has no factory.
Unresolvable(a) ==
    ModelType(Model[a]) = "" \/ ModelType(Model[a]) \notin models

\* C20: an LlmAgent whose model cannot be resolved emits no event and calls
\* no backend, its channel is closed when its goroutine is done, the
\* registry has cached nothing for the name and made nothing, and a
\* SequentialAgent that holds it has, when it closes its channel, run its
\* other sub-agents and forwarded their events.
C20_UnresolvedModelEmitsNothing ==
    \A a \in LlmAgents :
        Unresolvable(a) =>
            /\ chanLog[a] = <<>>
            /\ genCalled[a] = 0
            /\ pc[Backend[a]] = "idle"
            /\ pc[a] \in {"idle", "start", "beforeModel", "resolve",
                          "closing", "done"}
            /\ pc[a] = "done" => chanClosed[a]
            /\ llm[a] = NilLLM
            /\ Model[a] \notin DOMAIN instances
            /\ factoryCalls[Model[a]] = 0
            /\ \A s \in SeqAgents :
                  (/\ a \in Range(SubAgents[s])
                   /\ chanClosed[s]
                   /\ BeforeAgentCallback[s] # "err")
                  => \A c \in Range(SubAgents[s]) \ {a} :
                        /\ Finished(c)
                        /\ Forwarded(s, c) = chanLog[c]

\* C20's case: the SequentialAgent's first sub-agent is an LlmAgent with
\* an unsupported model, which is done without an event, and the events of
\* the second sub-agent were forwarded.
C20_Witness ==
    \E s \in SeqAgents, a \in LlmAgents :
        /\ SubAgents[s][1] = a
        /\ Unresolvable(a)
        /\ pc[a] = "done"
        /\ beforeModelCalled[a] = 0
        /\ chanClosed[s]
        /\ Len(chanLog[s]) = MaxEmit
        /\ chanLog[s] = chanLog[SubAgents[s][2]]

\* -------------------------------------------------------- agent callbacks

\* The agents that have callbacks: the workflow agents and the LlmAgent.
CallbackAgents == WorkflowAgents \cup LlmAgents

\* The goroutines an agent's RunAsync starts or calls: its sub-agents, a
\* ParallelAgent's forwarding goroutines, an LlmAgent's backend.
Started(a) ==
    (IF a \in WorkflowAgents
     THEN {c \in Range(SubAgents[a]) : pc[c] # "idle"}
     ELSE {})
    \cup (IF a \in ParAgents
          THEN {Forwarder[c] : c \in {d \in Range(SubAgents[a]) :
                                         pc[Forwarder[d]] # "idle"}}
          ELSE {})
    \cup (IF a \in LlmAgents /\ (pc[Backend[a]] # "idle" \/ genCalled[a] > 0)
          THEN {Backend[a]}
          ELSE {})

\* The goroutines that send on an agent's channel and have not returned.
Sending(a) ==
    (IF pc[a] \in {"closing", "done"} THEN {} ELSE {a})
    \cup (IF a \in ParAgents
          THEN {Forwarder[c] : c \in {d \in Range(SubAgents[a]) :
                                  pc[Forwarder[d]] \notin {"idle", "done"}}}
          ELSE {})

\* C18: within one RunAsync the before-agent callback is invoked once (not
\* at all when it is nil), before anything is started and before any
\* event; the after-agent callback is invoked at most once, and then no
\* goroutine is left that sends on the agent's channel; a workflow agent
\* whose before-agent callback passed has invoked its after-agent callback
\* once when it is done.
C18_CallbacksBracketTheRun ==
    \A a \in CallbackAgents :
        /\ IF pc[a] \in {"idle", "start"}
           THEN /\ beforeCalled[a] = 0
                /\ chanLog[a] = <<>>
                /\ pc[a] = "start" => Started(a) = {}
           ELSE beforeCalled[a] = Invoked(BeforeAgentCallback[a], 0)
        /\ afterCalled[a] <= 1
        /\ afterCalled[a] > 0 => Sending(a) = {}
        /\ (/\ a \in WorkflowAgents
            /\ pc[a] = "done"
            /\ BeforeAgentCallback[a] # "err")
           => afterCalled[a] = Invoked(AfterAgentCallback[a], 0)

\* C18's case: a LoopAgent with both callbacks ran two passes over its two
\* sub-agents and closed its channel; each callback was invoked once.
C18_Witness ==
    \E a \in LoopAgents :
        /\ chanClosed[a]
        /\ BeforeAgentCallback[a] = "ok"
        /\ AfterAgentCallback[a] = "ok"
        /\ Len(runLog[a]) = 2 * Len(SubAgents[a])
        /\ chanLog[a] # <<>>
        /\ beforeCalled[a] = 1
        /\ afterCalled[a] = 1

\* An agent whose before-agent callback, or before-model callback for an
\* LlmAgent, returns an error.
FailsBeforeRunning(a) ==
    \/ BeforeAgentCallback[a] = "err"
    \/ a \in LlmAgents /\ BeforeModelCallback[a] = "err"

\* C19: when the before-agent callback (for an LlmAgent, also the
\* before-model callback) returns an error, RunAsync has still returned
\* the channel with a nil error, no event comes on the channel, no
\* sub-agent, forwarding goroutine, model resolution or backend is started,
\* and the channel is closed when the goroutine is done.
C19_FailingCallbackEndsQuietly ==
    \A a \in CallbackAgents :
        FailsBeforeRunning(a) =>
            /\ RunAsyncOutcomes(a) = {TRUE}
            /\ chanLog[a] = <<>>
            /\ Started(a) = {}
            /\ a \in LlmAgents => llm[a] = NilLLM
            /\ pc[a] \in {"idle", "start", "beforeModel", "closing", "done"}
            /\ pc[a] = "done" => chanClosed[a]
            /\ afterCalled[a] = 0

\* C19's case: an LlmAgent whose before-agent callback passed and whose
\* before-model callback failed; its channel is closed and its consumer has
\* seen the end of the stream.
C19_Witness ==
    \E a \in LlmAgents :
        /\ BeforeAgentCallback[a] = "ok"
        /\ BeforeModelCallback[a] = "err"
        /\ beforeCalled[a] = 1
        /\ beforeModelCalled[a] = 1
        /\ chanClosed[a]
        /\ pc[Harness[a]] = "done"

\* ----------------------------------------------------------------- Runner

\* The events in the list s that invocation r made: the user event and the
\* events of its root agent.
OwnEvents(r, s) == ByAuthor(s, {"user", Root[r]})

\* C21: when GetSession or CreateSession fails, or the root agent's
\* RunAsync returns an error, Runner.RunAsync returns an error and no
\* channel: no relay goroutine runs and nothing is ever received.  When
\* the session step failed the root agent is not invoked and no session
\* holds an event of the invocation.  RunAsync returns a channel only when
\* none of the three failed.
C21_SetupFailureReturnsError ==
    \A r \in Runners :
        /\ (resolved[r].how = "failed" \/ pc[Root[r]] = "error")
              => result[r] = "error"
        /\ result[r] = "error" =>
              /\ pc[r] = "done"
              /\ pc[Relay[r]] = "idle"
              /\ Delivered(r) = <<>>
              /\ ~chanClosed[OutputChan[r]]
              /\ resolved[r].how = "failed" \/ pc[Root[r]] = "error"
        /\ resolved[r].how = "failed" =>
              /\ pc[Root[r]] = "idle"
              /\ appendCalled[r] = <<>>
              /\ persistedBy[r] = <<>>
              /\ \A i \in 1..Len(heap) : OwnEvents(r, heap[i].Events) = <<>>

\* C21's case: the session step failed on a store that other clients had
\* put a session with an event into; RunAsync has returned the error.
C21_Witness ==
    \E r \in Runners :
        /\ resolved[r].how = "failed"
        /\ result[r] = "error"
        /\ pc[r] = "done"
        /\ \E i \in 1..Len(heap) : heap[i].Events # <<>>

\* C22: unless another client deletes or re-creates the session during the
\* run, the session the invocation uses is the one stored under its key:
\* the one GetSession found, with the events and the state it had then
\* still in front, or, when there was none, a new one that started with no
\* event and an empty state; the invocation's events come after the events
\* that were there.
C22_GetOrCreate ==
    \A r \in Runners :
        LET key == sessionKey(AppName, UserID[r], SessionID[r])
            was == resolved[r]
        IN  (/\ ~disturbed[r]
             /\ pc[r] \notin {"idle", "start", "create"}
             /\ was.how # "failed")
            => /\ was.how \in {"found", "created"}
               /\ key \in DOMAIN sessions
               /\ sessions[key] = session[r]
               /\ heap[session[r]].State = was.State
               /\ IsPrefix(was.Events, heap[session[r]].Events)
               /\ OwnEvents(r, SubSeq(heap[session[r]].Events,
                                      Len(was.Events) + 1,
                                      Len(heap[session[r]].Events)))
                     = persistedBy[r]

\* C22's case: the session was there with an event and a state, and the
\* invocation has added its events and closed its stream.
C22_Witness ==
    \E r \in Runners :
        /\ ~disturbed[r]
        /\ resolved[r].how = "found"
        /\ resolved[r].Events # <<>>
        /\ resolved[r].State # NewState
        /\ chanClosed[OutputChan[r]]
        /\ Len(persistedBy[r]) >= 2

\* C29: of the events the relay has taken from the root agent, at most the
\* last one has not been received by the caller, whether AppendEvent has
\* been called for it or not, and the relay is back at its receive only
\* when the caller has received every event it took.
C29_OneEventInFlight ==
    \A r \in Runners :
        /\ Len(Emitted(r)) - Len(Delivered(r)) \in {0, 1}
        /\ Len(appendCalled[r]) - Len(Delivered(r)) \in {0, 1}
        /\ Len(appendCalled[r]) <= Len(Emitted(r))
        /\ pc[Relay[r]] \in {"recv", "done"} => Delivered(r) = Emitted(r)

\* C29's case: the caller has received the first event, the second is
\* appended, and the relay is blocked sending it.
C29_Witness ==
    \E r \in Runners :
        /\ pc[Relay[r]] = "send"
        /\ Len(Emitted(r)) = 2
        /\ Len(appendCalled[r]) = 2
        /\ Len(Delivered(r)) = 1

\* C25: once the ctx is cancelled the relay goroutine sends no event on
\* the channel RunAsync returned.
C25_NoEventAfterCancel ==
    cancelled =>
        \A r \in Runners :
            chanLog[OutputChan[r]] = logAtCancel[OutputChan[r]]

\* ---------------------------------------------------------- session store

\* The stored sessions.
Stored == {sessions[k] : k \in DOMAIN sessions}

\* C23: the keys under which the store holds a session are the keys that
\* were created and not deleted since.  GetSession returns a nil error, and
\* the session stored under the key or, when the key is absent, nil; it
\* changes nothing.  DeleteSession removes the key and changes nothing
\* under any other key.
C23_GetFindsWhatIsLive ==
    [][/\ live' = DOMAIN sessions'
       /\ reply'.op = "GetSession" =>
             /\ reply'.err = "nil"
             /\ reply'.value = (IF KeyOf(reply'.args) \in live
                                THEN sessions[KeyOf(reply'.args)] ELSE 0)
             /\ UNCHANGED <<sessions, heap>>
       /\ reply'.op = "DeleteSession" =>
             /\ reply'.err = "nil"
             /\ DOMAIN sessions' = DOMAIN sessions \ {KeyOf(reply'.args)}
             /\ \A k \in DOMAIN sessions' : sessions'[k] = sessions[k]
             /\ heap' = heap]_vars

\* C23's case: GetSession returned nil for a key that was created and then
\* deleted, while another session is still stored.
C23_Witness ==
    /\ reply.op = "GetSession"
    /\ reply.value = 0
    /\ reply.err = "nil"
    /\ \E i \in 1..Len(heap) :
          /\ i \notin Stored
          /\ reply.args = <<heap[i].AppName, heap[i].UserID, "s">>
    /\ Stored # {}

\* C24: ListSessions(app, user) returns the stored sessions that were
\* created with that application name and that user ID, and no other.
C24_ListIsTheUsersSessions ==
    reply.op = "ListSessions" =>
        reply.value = {i \in Stored : /\ heap[i].AppName = reply.args[1]
                                      /\ heap[i].UserID = reply.args[2]}

C27_ChildrenAgreeWithParent ==
    /\ \A p \in Nodes : \A c \in Range(subAgentsOf[p]) : ParentAgent[c] = p
    /\ \A p, q \in Nodes :
          p # q => Range(subAgentsOf[p]) \cap Range(subAgentsOf[q]) = {}

\* The agents of the subtree of a, in pre-order: a, then the subtrees of
\* its children in the order of the list.
RECURSIVE PreOrder(_)
RECURSIVE PreOrderOf(_)
PreOrder(a) == <<a>> \o PreOrderOf(subAgentsOf[a])

\* The pre-orders of a list of agents, one after another.
PreOrderOf(subs) ==
    IF subs = <<>> THEN <<>>
    ELSE PreOrder(Head(subs)) \o PreOrderOf(Tail(subs))

\* The first agent of a list that has the name, or nil.
FirstNamed(list, name) ==
    IF \A i \in 1..Len(list) : Name[list[i]] # name THEN "nil"
    ELSE list[CHOOSE i \in 1..Len(list) :
                 /\ Name[list[i]] = name
                 /\ \A j \in 1..(i - 1) : Name[list[j]] # name]

\* C28: on an acyclic tree FindAgent returns the first agent of the
\* pre-order that has the name, and nil exactly when none has it;
\* FindSubAgent returns the first direct child that has the name, and nil
\* exactly when no direct child has it.
C28_FindIsPreOrder ==
    /\ findResult.op = "FindAgent" =>
          /\ Acyclic
          /\ findResult.value =
                 FirstNamed(PreOrder(findResult.a), findResult.name)
          /\ findResult.value = "nil" <=>
                 \A n \in {findResult.a} \cup
                          ReachIn({findResult.a}, Cardinality(Nodes)) :
                     Name[n] # findResult.name
    /\ findResult.op = "FindSubAgent" =>
          /\ findResult.value =
                 FirstNamed(subAgentsOf[findResult.a], findResult.name)
          /\ findResult.value = "nil" <=>
                 \A n \in Range(subAgentsOf[findResult.a]) :
                     Name[n] # findResult.name

\* C28's case: two agents have the name, the deeper one comes first in
\* pre-order, and FindAgent returned it.
C28_Witness ==
    /\ subAgentsOf["n1"] = <<"n2", "n3">>
    /\ subAgentsOf["n2"] = <<"n4">>
    /\ findResult = [op |-> "FindAgent", a |-> "n1", name |-> "b",
                     value |-> "n4"]

\* ------------------------------------------------------ request contents

\* C30: when an LlmAgent with IncludeContents = default builds its request,
\* the request's contents are the instruction (if it is not empty) and then
\* the Content of every event the session holds in the store at that
\* moment, those persisted earlier in the same invocation included.
C30_RequestHoldsPersistedHistory ==
    [][\A a \in LlmAgents :
          (/\ genCalled'[a] # genCalled[a]
           /\ IncludeContents[a] = IncludeContentsDefault
           /\ AppendFinds(AppName, UserID[Invocation[a]],
                          SessionID[Invocation[a]]))
          => contents'[a] =
                 (IF Instruction[a] # ""
                  THEN <<SystemContent(Instruction[a])>> ELSE <<>>)
                 \o ContentsOf(ListEvents(AppName, UserID[Invocation[a]],
                                          SessionID[Invocation[a]]))]_vars

\* ------------------------------------------------- session store, keying

\* Session i was made by CreateSession for the triple t.
CreatedFor(i, t) ==
    /\ heap[i].AppName = t[1]
    /\ heap[i].UserID = t[2]
    /\ t[3] # "" => heap[i].ID = t[3]

\* C32: GetSession for a triple returns only a session that was created
\* for that triple, and AppendEvent and ListEvents for a triple work on
\* such a session only.
C32_TriplesShareNothing ==
    /\ (reply.op = "GetSession" /\ reply.value # 0)
          => CreatedFor(reply.value, reply.args)
    /\ (/\ reply.op \in {"AppendEvent", "ListEvents"}
        /\ KeyOf(reply.args) \in DOMAIN sessions)
          => CreatedFor(sessions[KeyOf(reply.args)], reply.args)

\* C35: once CreateSession(app, user, id, _) has returned the session s,
\* GetSession(app, user, s.ID) gives s and ListSessions(app, user) holds s.
C35_CreatedIsFoundByItsID ==
    reply.op = "CreateSession" =>
        /\ GetSession(reply.args[1], reply.args[2], heap[reply.value].ID)
              = reply.value
        /\ reply.value \in ListSessions(reply.args[1], reply.args[2])

\* C36: CreateSession for a key that is in the store returns a nil error
\* and puts a new session under the key, with no event and with the given
\* initial state; ListEvents for the key gives no event; the sessions
\* under the other keys stay.
C36_CreateReplaces ==
    [][(reply'.op = "CreateSession" /\ KeyOf(reply'.args) \in DOMAIN sessions)
       => LET key == KeyOf(reply'.args)
          IN  /\ reply'.err = "nil"
              /\ reply'.value = Len(heap) + 1
              /\ DOMAIN sessions' = DOMAIN sessions
              /\ sessions'[key] = reply'.value
              /\ \A k \in DOMAIN sessions \ {key} : sessions'[k] = sessions[k]
              /\ Len(heap') = Len(heap) + 1
              /\ heap'[reply'.value].Events = <<>>
              /\ heap'[reply'.value].State = reply'.args[4]
              /\ heap'[sessions'[key]].Events = <<>>
              /\ \A i \in 1..Len(heap) : heap'[i] = heap[i]]_vars

\* C36's case: a session got an event, CreateSession was called for its
\* key again with an initial state, and ListEvents for the key has
\* returned no event.
C36_Witness ==
    /\ reply.op = "ListEvents"
    /\ reply.value = <<>>
    /\ KeyOf(reply.args) \in DOMAIN sessions
    /\ heap[sessions[KeyOf(reply.args)]].State # NewState
    /\ \E i \in 1..Len(heap) :
          /\ i < sessions[KeyOf(reply.args)]
          /\ heap[i].Events # <<>>
          /\ sessionKey(heap[i].AppName, heap[i].UserID, heap[i].ID)
                = KeyOf(reply.args)

\* ------------------------------------------------- LoopAgent, exit flag

\* Where a LoopAgent is during a pass over its sub-agents.
InPass == {"next", "recv", "send", "check"}

\* exit_loop is true in the State now.
ExitFlagSet == shouldExitLoop(Get(CtxState, "exit_loop"))

\* C37: exit_loop is read at the start of an iteration only.  A pass over
\* the sub-agents is left before its end only by an event that asks for
\* the exit, whatever the flag is; it ends when every sub-agent had its
\* turn; and an iteration that would start while the flag is true starts
\* no sub-agent.
C37_ExitFlagReadAtIterationStart ==
    [][\A a \in LoopAgents :
          /\ (pc[a] \in InPass /\ pc'[a] \notin InPass \cup {"iter"})
                => /\ pc[a] = "check"
                   /\ chanLog[a][Len(chanLog[a])].SkipSummarization
          /\ (pc[a] \in InPass /\ pc'[a] = "iter")
                => /\ idx[a] > Len(SubAgents[a])
                   /\ \A c \in Range(SubAgents[a]) :
                         \E j \in 1..Len(runLog[a]) :
                             runLog[a][j] = <<iteration[a], c>>
          /\ (pc[a] = "send" /\ pc'[a] # "send")
                => chanLog'[a] = Append(chanLog[a], event[a])
          /\ (pc[a] = "iter" /\ ExitFlagSet /\ pc'[a] # "iter")
                => /\ pc'[a] = "after"
                   /\ runLog'[a] = runLog[a]]_vars

\* C37's case: the first iteration found no flag and started; the flag
\* became true while the first sub-agent ran; the loop went on to the
\* second sub-agent all the same and has forwarded an event of it.
C37_Witness ==
    \E a \in LoopAgents :
        /\ pc[a] \in InPass
        /\ iteration[a] = 0
        /\ checks[a] = <<<<Nil, FALSE>>>>
        /\ ExitFlagSet
        /\ runLog[a] = <<<<0, SubAgents[a][1]>>, <<0, SubAgents[a][2]>>>>
        /\ Forwarded(a, SubAgents[a][1]) # <<>>
        /\ Forwarded(a, SubAgents[a][2]) # <<>>

\* ------------------------------------------------------------ termination

\* A goroutine that was started has returned.
Returned(p) == pc[p] \in {"idle", "error", "done"}

\* C38: when the goroutines are scheduled and the caller drains the
\* stream, the stream of a LoopAgent is closed in the end and every
\* goroutine the run started has returned, the sub-agents' included.
C38_EveryTaskTerminates ==
    <>(\A a \in LoopAgents :
          /\ chanClosed[a]
          /\ Returned(a)
          /\ Returned(Harness[a])
          /\ \A c \in Range(SubAgents[a]) : Returned(c))

\* ---------------------------------------------------------------- closing

\* The goroutine that closes a channel: the relay for a Runner's
\* outputChan, and for the others the goroutine named like the channel.
Closer(ch) ==
    IF \E r \in Runners : OutputChan[r] = ch
    THEN Relay[CHOOSE r \in Runners : OutputChan[r] = ch]
    ELSE ch

\* The channels the Runner and the agents of this code make: outputChan,
\* and the eventChan of each workflow agent and LlmAgent.
MadeChans ==
    {OutputChan[r] : r \in Runners} \cup WorkflowAgents \cup LlmAgents

\* C39: a channel is closed by the last step of the goroutine that closes
\* it, which closes it once; and no goroutine is at a send on a closed
\* channel: a forwarder of a ParallelAgent is never at its send once the
\* ParallelAgent's channel is closed, whatever the callbacks returned.
C39_ClosedOnceNoSendAfter ==
    \A ch \in MadeChans :
        /\ chanClosed[ch] => pc[Closer(ch)] = "done"
        /\ pc[Closer(ch)] = "closing" => ~chanClosed[ch]
        /\ \A p \in Procs :
              (pc[p] = "send" /\ SendChan(p) = ch) => ~chanClosed[ch]

\* C39's case: the after-agent callback of a ParallelAgent failed after
\* both forwarders had sent events on its channel, and the channel is
\* closed.
C39_Witness ==
    \E a \in ParAgents :
        /\ chanClosed[a]
        /\ AfterAgentCallback[a] = "err"
        /\ afterCalled[a] = 1
        /\ \A c \in Range(SubAgents[a]) : Forwarded(a, c) # <<>>

\* ------------------------------------------------- concurrent invocations

\* The events of a list that invocation r made: its user event and the
\* events of its root agent.
MadeBy(r, s) ==
    LET keep == {i \in 1..Len(s) : s[i].id[1] \in {r, Root[r]}}
        RECURSIVE Pick(_)
        Pick(i) == IF i > Len(s) THEN <<>>
                   ELSE (IF i \in keep THEN <<s[i]>> ELSE <<>>) \o Pick(i + 1)
    IN  Pick(1)

\* Both invocations found the session in the store.
BothFound == \A r \in Pair : resolved[r].how = "found"

\* Both invocations have made their session and closed their stream.
BothClosed == \A r \in Pair : chanClosed[OutputChan[r]]

\* C31: with two invocations on one stored session, the session's event
\* list holds every append either of them made, each in its place: none
\* is lost or overwritten by the other's.
C31_NoAppendLost ==
    BothFound =>
        \A r \in Pair : MadeBy(r, heap[session[r]].Events) = persistedBy[r]

\* C33: when two invocations for a key that was absent have both closed
\* their stream, both used the Session object the store holds under the
\* key, and it holds every event either of them appended.
C33_BothResolveToOneSession ==
    (BothClosed /\ \A r \in Pair : resolved[r].how # "found") =>
        LET s == GetSession(AppName, UserID["r1"], SessionID["r1"])
        IN  /\ s # 0
            /\ \A r \in Pair :
                  /\ session[r] = s
                  /\ \A i \in 1..Len(persistedBy[r]) :
                        persistedBy[r][i] \in Range(heap[s].Events)

\* C34: when two invocations on a session that was there have both closed
\* their stream, the stored event list holds the root agent's events of
\* each exactly once, in the order its caller received them.
C34_BothStreamsPersisted ==
    (BothClosed /\ BothFound) =>
        \A r \in Pair : ByAuthor(Persisted(r), {Root[r]}) = Delivered(r)

====
